---- MODULE Spec2Model ----
(***************************************************************************)
(* Model of the embedding-and-projection pipeline of passage_embed:        *)
(*   - visualization/plotly_3d.py : create_3d_visualization (reduction to  *)
(*     3D with t-SNE or PCA, reduced-space centroids, cosine scores,       *)
(*     report file)                                                        *)
(*   - analysis/embeddings.py     : EmbeddingGenerator (encode, truncate,  *)
(*     query mean)                                                         *)
(* One call runs at a time (the pipeline is single-threaded); `pc` is the  *)
(* position inside the running call.                                       *)
(*                                                                         *)
(* Numerical abstractions.  The outputs of the external numerical          *)
(* libraries are kept symbolic: a reduced coordinate is a record           *)
(* [by, row, comp] naming the method that produced it, the input row it    *)
(* was computed for and the output component; by = "pad" is the literal    *)
(* 0.0 that np.zeros/np.hstack append.  A cosine similarity is the triple  *)
(* (dot, nx2, ny2) standing for dot / sqrt(nx2 * ny2).  An engine vector   *)
(* is [num, den2] standing for num / sqrt(den2); a mean is the sequence of *)
(* its terms together with their count (count 0 is NaN).                   *)
(***************************************************************************)
EXTENDS Integers, Sequences, FiniteSets, TLC

----------------------------------------------------------------------------
(* Program constants *)

MIN_SAMPLES_FOR_TSNE == 4
DEFAULT_PERPLEXITY == 30
PERPLEXITY_FLOOR == 5
TARGET_COMPONENTS == 3

(* Bounds of the model *)

MaxN == 7          \* sample counts 0..MaxN, plus the ones around DEFAULT_PERPLEXITY
MaxDim == 3        \* number of features of the vectors given to the reducer
MaxVecDim == 2     \* dimension of the group-mean / reference vectors
MaxVal == 1        \* components of the mean vectors range over 0..MaxVal
MaxTexts == 2      \* texts per encode call
MaxNative == 3     \* native dimension of the backing model
MaxComp == 1       \* components of the model's vectors range over 0..MaxComp
MaxTargetDim == 2  \* small embedding_dim values, below MaxNative
MaxItems == 2      \* content items per source
MaxVersion == 3    \* highest version number written

----------------------------------------------------------------------------
(* Helpers *)

Min(a, b) == IF a < b THEN a ELSE b
Max(a, b) == IF a > b THEN a ELSE b

\* the products of the components lo..hi, summed by halves
RECURSIVE DotRange(_, _, _, _)
DotRange(a, b, lo, hi) ==
    IF lo > hi THEN 0
    ELSE IF lo = hi THEN a[lo] * b[lo]
    ELSE LET mid == (lo + hi) \div 2
         IN  DotRange(a, b, lo, mid) + DotRange(a, b, mid + 1, hi)

Dot(a, b) == DotRange(a, b, 1, IF Len(a) <= Len(b) THEN Len(a) ELSE Len(b))

SumSq(a) == Dot(a, a)

\* the records handed to create_3d_visualization
SampleCounts == (0..MaxN) \cup {DEFAULT_PERPLEXITY + k : k \in 1..2}
LabelSchemes == {"single", "mixed"}
LabelOf(scheme, i) ==
    IF scheme = "single" THEN "client"
    ELSE IF i % 3 = 1 THEN "client"
    ELSE IF i % 3 = 2 THEN "competitor"
    ELSE "Queries"

NoCoord == [by |-> "unset", row |-> 0, comp |-> 0]

MkRecord(i, D, scheme) ==
    [embedding |-> [j \in 1..D |-> (i * j) % 3],
     label     |-> LabelOf(scheme, i),
     type      |-> IF LabelOf(scheme, i) = "Queries" THEN "Query" ELSE "p",
     value     |-> i,
     symbol    |-> IF LabelOf(scheme, i) = "Queries" THEN "x" ELSE "circle",
     size      |-> IF LabelOf(scheme, i) = "Queries" THEN 6 ELSE 8,
     x |-> NoCoord, y |-> NoCoord, z |-> NoCoord]

MkRecords(n, D, scheme) == [i \in 1..n |-> MkRecord(i, D, scheme)]

MeanVecs == UNION {[1..d -> 0..MaxVal] : d \in 1..MaxVecDim}
MeanKeySets == {{}, {"client"}, {"client", "competitor"}}
MeanEmbeddingChoices == UNION {[S -> MeanVecs] : S \in MeanKeySets}

\* The calls explored: every record shape with a few mean inputs (a zero, a
\* non-zero and a longer vector), and every mean input with one record shape.
RecordShapes == SampleCounts \X (1..MaxDim) \X LabelSchemes
CoreRecordShapes == {<<2, TARGET_COMPONENTS, "mixed">>,
                     <<MIN_SAMPLES_FOR_TSNE, TARGET_COMPONENTS, "mixed">>}
\* the record counts create_simple_visualization is called with
SimpleCounts == {0, 2, MIN_SAMPLES_FOR_TSNE}
CoreMeanVecs == {<<0>>, <<1>>, <<1, 1>>}
MeanInputs == MeanEmbeddingChoices \X MeanVecs
CoreMeanInputs == (UNION {[S -> CoreMeanVecs] : S \in MeanKeySets}) \X CoreMeanVecs
VizInputs == (RecordShapes \X CoreMeanInputs) \cup (CoreRecordShapes \X MeanInputs)

----------------------------------------------------------------------------
(* Dimensionality reduction: plotly_3d.py lines 50-95 *)

\* line 73
AdaptivePerplexity(n) == Max(PERPLEXITY_FLOOR, Min(DEFAULT_PERPLEXITY, n - 1))

\* variant: two components instead of three
PCAComponents_Mut(n) == Min(2, n)

\* lines 62 and 86
PCAComponents(n) == Min(TARGET_COMPONENTS, n)

\* sklearn PCA.fit_transform raises ValueError on an empty (1-D) array and
\* when n_components > min(n_samples, n_features)
PCARaises(n, D, k) == n = 0 \/ k > Min(n, D)

\* lines 63, 77 and 87: random_state=42
RANDOM_STATE == 42
NoSeed == -1
AnySeeds == {1, 2}

\* variant: the estimators run unseeded
EstimatorSeeds_Mut(random_state) == AnySeeds

\* the seed an estimator runs with: the given random_state, any when None
EstimatorSeeds(random_state) ==
    IF random_state = NoSeed THEN AnySeeds ELSE {random_state}

\* line 50: all_embeddings, the vectors of the records in their order
AllEmbeddings(recs) == [i \in 1..Len(recs) |-> recs[i].embedding]

\* a coordinate is the value the estimator `by`, seeded with `seed` and
\* fitted on the matrix `of`, gives to component `comp` of row `row`
PCATransform(X, k, s) ==
    [i \in 1..Len(X) |->
        [j \in 1..k |-> [by |-> "PCA", row |-> i, comp |-> j, seed |-> s, of |-> X]]]

\* lines 66-68 and 90-92: np.hstack([reduced, np.zeros((n, 3 - k))])
PadTo3D(pts, n, k) ==
    IF k < TARGET_COMPONENTS
    THEN [i \in 1..n |->
            pts[i] \o [j \in 1..(TARGET_COMPONENTS - k) |->
                          [by |-> "pad", row |-> i, comp |-> k + j]]]
    ELSE pts

\* lines 62-69 and 86-93
LinearReduce(X, s) ==
    PadTo3D(PCATransform(X, PCAComponents(Len(X)), s), Len(X), PCAComponents(Len(X)))

\* lines 77-78: TSNE(n_components=3, ...).fit_transform
TSNETransform(X, s) ==
    [i \in 1..Len(X) |->
        [j \in 1..TARGET_COMPONENTS |->
            [by |-> "t-SNE", row |-> i, comp |-> j, seed |-> s, of |-> X]]]

\* lines 74-84: how tsne.fit_transform can end on the matrix X, given the
\* preceding call `prior` of this process.  An estimator built with
\* random_state=42 is a function of its input, so on the input of the
\* preceding call it ends as it did then; otherwise, and for an estimator
\* without a fixed seed, it may return or raise.
TSNEOutcomes(X, prior) ==
    IF /\ prior.tsne_called
       /\ prior.input = X
       /\ Cardinality(EstimatorSeeds(RANDOM_STATE)) = 1
    THEN {prior.tsne_raised}
    ELSE BOOLEAN

\* variant: threshold compared with <= instead of <
UsesPCADirectly_Mut(n) == n <= MIN_SAMPLES_FOR_TSNE

\* line 54
UsesPCADirectly(n) == n < MIN_SAMPLES_FOR_TSNE

\* variant: attaching the coordinates also resets the marker of the record
AttachedRecord_Mut(rec, pt) ==
    [rec EXCEPT !.x = pt[1], !.y = pt[2], !.z = pt[3], !.symbol = "circle", !.size = 8]

\* lines 98-99
AttachedRecord(rec, pt) == [rec EXCEPT !.x = pt[1], !.y = pt[2], !.z = pt[3]]

\* variant: points attached in reverse order
AttachAll_Mut(recs, pts) ==
    [i \in 1..Len(recs) |-> [recs[i] EXCEPT !.x = pts[Len(recs) + 1 - i][1],
                                              !.y = pts[Len(recs) + 1 - i][2],
                                              !.z = pts[Len(recs) + 1 - i][3]]]


AttachAll(recs, pts) == [i \in 1..Len(recs) |-> AttachedRecord(recs[i], pts[i])]

----------------------------------------------------------------------------
(* Reduced-space centroids: lines 102-112 *)

LabelsOf(recs) == {recs[i].label : i \in 1..Len(recs)}

RECURSIVE PointsOfLabel(_, _)
PointsOfLabel(recs, l) ==
    IF recs = <<>> THEN <<>>
    ELSE (IF Head(recs).label = l
          THEN << <<Head(recs).x, Head(recs).y, Head(recs).z>> >>
          ELSE <<>>) \o PointsOfLabel(Tail(recs), l)

\* variant: every label's centroid is taken over the points of all records
TsneMeans_Mut(recs) ==
    [l \in LabelsOf(recs) |->
        [pts |-> [i \in 1..Len(recs) |-> <<recs[i].x, recs[i].y, recs[i].z>>]]]

\* the centroid of a label is the mean of the points listed in `pts`
TsneMeans(recs) == [l \in LabelsOf(recs) |-> [pts |-> PointsOfLabel(recs, l)]]

----------------------------------------------------------------------------
(* Cosine similarity: lines 115-118, sklearn.metrics.pairwise *)

\* check_pairwise_arrays: X.shape[1] must equal Y.shape[1]
DimsCompatible(a, b) == Len(a) = Len(b)

\* sklearn normalize(): a zero norm is replaced by 1 before dividing
SafeNorm2(a) == IF SumSq(a) = 0 THEN 1 ELSE SumSq(a)

CosineSimilarity(a, b) == [dot |-> Dot(a, b), nx2 |-> SafeNorm2(a), ny2 |-> SafeNorm2(b)]

ScoreRaises(means, ref) == \E k \in DOMAIN means : ~DimsCompatible(means[k], ref)

CosineSimilarities(means, ref) ==
    [k \in DOMAIN means |-> CosineSimilarity(means[k], ref)]

----------------------------------------------------------------------------
(* EmbeddingGenerator: analysis/embeddings.py *)

\* line 14
ALLOWED_MRL_DIMS == {128, 256, 512, 768}
NoneDim == 0       \* embedding_dim is None

\* the engines that __init__ accepts (_validate_embedding_dim, lines 61-72)
DimChoices == {NoneDim} \cup (1..MaxTargetDim) \cup ALLOWED_MRL_DIMS
ValidEmbeddingDim(gemma, dim) ==
    dim = NoneDim \/ (dim > 0 /\ (gemma => dim \in ALLOWED_MRL_DIMS))
EngineChoices ==
    {e \in [is_gemma : BOOLEAN, has_asym : BOOLEAN, embedding_dim : DimChoices] :
        ValidEmbeddingDim(e.is_gemma, e.embedding_dim)}
NoEngine == [is_gemma |-> FALSE, has_asym |-> FALSE, embedding_dim |-> NoneDim]

\* the embedding_dim argument of __init__: None, an int, or a value of another
\* type: the floats 256.0 and 300.0 and the str "256" (val is the number that
\* == compares equal to a float, and the number a str spells)
NoneArg == [kind |-> "none", val |-> 0]
IntArgs == {-1, 0, 300} \cup (1..MaxTargetDim) \cup ALLOWED_MRL_DIMS
DimArgs == {NoneArg} \cup {[kind |-> "int", val |-> v] : v \in IntArgs}
               \cup {[kind |-> "float", val |-> 256], [kind |-> "float", val |-> 300],
                     [kind |-> "str", val |-> 256]}

\* variant: the EmbeddingGemma restriction is not checked
ArgAccepted_Mut(gemma, arg) ==
    arg.kind = "none" \/ (arg.kind = "int" /\ arg.val > 0)

\* _validate_embedding_dim, lines 61-72, on the constructor's argument
ArgAccepted(gemma, arg) ==
    \/ arg.kind = "none"
    \/ /\ arg.kind = "int" /\ arg.val > 0
       /\ (gemma => arg.val \in ALLOWED_MRL_DIMS)

\* self.embedding_dim as the engine keeps it
StoredDim(arg) == IF arg.kind = "none" THEN NoneDim ELSE arg.val

NoModel == <<>>

TextIds == {"t1", "t2"}
TextLists == UNION {[1..k -> TextIds] : k \in 0..MaxTexts}

\* The backing model is a function of the text: it maps "t1" to a vector
\* `base` of its native dimension and "t2" to the reverse of `base`.  For a
\* batch it returns one vector per text, in order (an empty array for an
\* empty batch).
RawVector(f) == [num |-> f, den2 |-> 1]
ModelBases == UNION {[1..d -> 0..MaxComp] : d \in 1..MaxNative}
Reverse(f) == [i \in 1..Len(f) |-> f[Len(f) + 1 - i]]
ModelEncode(base, t) == RawVector(IF t = "t1" THEN base ELSE Reverse(base))
EncodeBatch(base, batch) == [i \in 1..Len(batch) |-> ModelEncode(base, batch[i])]
ModelOutputs(batch) == {EncodeBatch(base, batch) : base \in ModelBases}

\* variant: a vector of exactly `dim` components is renormalised too
TruncateEmbedding_Lt(v, dim) ==
    IF dim = NoneDim \/ Len(v.num) < dim
    THEN v
    ELSE LET truncated == SubSeq(v.num, 1, dim)
         IN  IF SumSq(truncated) > 0
             THEN [num |-> truncated, den2 |-> SumSq(truncated)]
             ELSE [num |-> truncated, den2 |-> v.den2]

\* variant: the prefix is divided by its norm without the norm > 0 test
TruncateEmbedding_Div(v, dim) ==
    IF dim = NoneDim \/ Len(v.num) <= dim
    THEN v
    ELSE LET truncated == SubSeq(v.num, 1, dim)
         IN  [num |-> truncated, den2 |-> SumSq(truncated)]

\* _truncate_embedding, lines 218-229
TruncateEmbedding(v, dim) ==
    IF dim = NoneDim \/ Len(v.num) <= dim
    THEN v
    ELSE LET truncated == SubSeq(v.num, 1, dim)
         IN  IF SumSq(truncated) > 0
             THEN [num |-> truncated, den2 |-> SumSq(truncated)]
             ELSE [num |-> truncated, den2 |-> v.den2]

\* variant: only the first vector of a batch is truncated
ApplyTruncation_Mut(arr, dim) ==
    IF dim = NoneDim THEN arr
    ELSE [i \in 1..Len(arr) |-> IF i = 1 THEN TruncateEmbedding(arr[i], dim) ELSE arr[i]]

\* _apply_truncation on a batch, lines 203-216
ApplyTruncation(arr, dim) ==
    IF dim = NoneDim THEN arr
    ELSE [i \in 1..Len(arr) |-> TruncateEmbedding(arr[i], dim)]

\* variant: the sum is divided by one more than the number of vectors
NpMean_Mut(vs) == [terms |-> vs, cnt |-> Len(vs) + 1]

\* np.mean(vectors, axis=0): the sum of `terms` divided by `cnt`; NaN when cnt = 0
NpMean(vs) == [terms |-> vs, cnt |-> Len(vs)]
IsNaN(m) == m.cnt = 0
NoMean == [terms |-> <<>>, cnt |-> -1]

\* _encode_queries, lines 193-201: which method of the model is called
QueryEncoder(e) == IF e.is_gemma /\ e.has_asym THEN "encode_query" ELSE "encode"

\* variant: documents always go to the plain encoder
DocumentEncoder_Mut(e) == "encode"

\* _encode_document, lines 178-191: which method of the model is called
DocumentEncoder(e) == IF e.is_gemma /\ e.has_asym THEN "encode_document" ELSE "encode"

\* json_data: the sources in the dict's order, each with its content items
TextAt(i) == IF i % 2 = 1 THEN "t1" ELSE "t2"
Item(i, src) == [type |-> IF i = 1 THEN "h1" ELSE "p", value |-> TextAt(i), source |-> src]
Elements(n, src) == [i \in 1..n |-> Item(i, src)]
JsonData(nc, nk, src) ==
    << [key |-> "client", elements |-> Elements(nc, src)],
       [key |-> "competitor", elements |-> Elements(nk, "competitor")] >>
JsonChoices ==
    {JsonData(nc, nk, src) : nc \in 0..MaxItems, nk \in 0..MaxItems,
                             src \in {"client", "other"}}
CoreJson == JsonData(2, 1, "client")
CoreEngine == [is_gemma |-> FALSE, has_asym |-> FALSE, embedding_dim |-> 1]
CoreBase == <<1, 0>>

\* the symbol and size mappings that analyze_urls passes (cli.py, lines 123-133)
CliSymbolMapping ==
    [k \in {"client", "competitor", "Query"} |->
        CASE k = "client" -> "circle" [] k = "competitor" -> "square" [] OTHER -> "x"]
CliSizeMapping ==
    [k \in {"client", "competitor", "Query"} |->
        CASE k = "client" -> 10 [] k = "competitor" -> 8 [] OTHER -> 6]
NoMapping == <<>>

\* dict.get(key, default)
Get(m, k, default) == IF k \in DOMAIN m THEN m[k] ELSE default

\* variant: symbol and size are looked up by the source's key
DocRecord_Mut(emb, key, el, sm, zm) ==
    [embedding |-> emb, label |-> key, type |-> el.type, value |-> el.value,
     symbol |-> Get(sm, key, "circle"), size |-> Get(zm, key, 8)]

\* lines 123-130: the record of one embedded element
DocRecord(emb, key, el, sm, zm) ==
    [embedding |-> emb, label |-> key, type |-> el.type, value |-> el.value,
     symbol |-> Get(sm, el.source, "circle"), size |-> Get(zm, el.source, 8)]

\* dict item assignment
Put(m, k, v) == [x \in DOMAIN m \cup {k} |-> IF x = k THEN v ELSE m[x]]

\* variant: the mean is stored for every source
MeansAfterSource_Mut(means, key, embs) == Put(means, key, NpMean(embs))

\* lines 135-136: the mean is stored only for a source with embedded elements
MeansAfterSource(means, key, embs) ==
    IF embs # <<>> THEN Put(means, key, NpMean(embs)) ELSE means

\* the engines, models and data that process_json_data is called with
ProcessInputs ==
    ((EngineChoices \X {CoreBase}) \X ({CoreJson} \X {"cli"}))
    \cup (({CoreEngine} \X ModelBases) \X ({CoreJson} \X {"cli"}))
    \cup (({CoreEngine} \X {CoreBase}) \X (JsonChoices \X {"cli", "none"}))

\* generate_query_embeddings, lines 159-168
QueryRecords(embs, queries) ==
    [i \in 1..Len(embs) |->
        [embedding |-> embs[i], label |-> "Queries", type |-> "Query",
         value |-> queries[i], symbol |-> "x", size |-> 6]]

----------------------------------------------------------------------------
(* analyze_urls: cli.py *)

\* lines 18-27
NoName == ""
DEFAULT_MODEL_NAME == "google/embeddinggemma-300m"
MODEL_PRESETS ==
    [k \in {"fast", "accurate", "multilingual", "large"} |->
        CASE k = "fast" -> "all-MiniLM-L6-v2"
          [] k = "accurate" -> "all-mpnet-base-v2"
          [] k = "multilingual" -> "paraphrase-multilingual-mpnet-base-v2"
          [] OTHER -> "sentence-transformers/all-roberta-large-v1"]
VALID_EMBEDDING_DIMS == {128, 256, 512, 768}
DEFAULT_EMBEDDING_DIM == 768

\* resolve_model_name, lines 30-34
ResolveModelName(name) ==
    IF name = NoName THEN DEFAULT_MODEL_NAME ELSE Get(MODEL_PRESETS, name, name)

\* `model or config_model`, line 83
FirstName(a, b) == IF a # NoName THEN a ELSE b

\* resolve_embedding_dim, lines 37-43
ResolveEmbeddingDim(cli_value, config_value) ==
    IF cli_value.kind # "none" THEN cli_value
    ELSE IF config_value.kind # "none" THEN config_value
    ELSE [kind |-> "int", val |-> DEFAULT_EMBEDDING_DIM]

\* line 86: `resolved_embedding_dim not in VALID_EMBEDDING_DIMS`; membership
\* in the tuple compares with ==, so the float 256.0 is a member and the
\* str "256" is not
Unsupported(dim) ==
    ~(dim.kind \in {"int", "float"} /\ dim.val \in VALID_EMBEDDING_DIMS)

\* variant: the resolved dimension is handed on as it is
CoerceEmbeddingDim_Mut(dim) == dim

\* lines 86-92: an unsupported dimension is replaced by the default
CoerceEmbeddingDim(dim) ==
    IF Unsupported(dim) THEN [kind |-> "int", val |-> DEFAULT_EMBEDDING_DIM] ELSE dim

\* `'embeddinggemma' in model_name.lower()`, embeddings.py line 34
IsGemmaName(name) == name \in {"google/embeddinggemma-300m"}

\* a URL: with or without a scheme, its host with or without "www." and a port
Url(scheme, www, host, port) ==
    [scheme |-> scheme, www |-> www, host |-> host, port |-> port]
UrlChoices ==
    {Url(TRUE, TRUE, "Acme.com", FALSE), Url(TRUE, FALSE, "acme.com", FALSE),
     Url(TRUE, FALSE, "rival.com", TRUE), Url(TRUE, FALSE, "competitor", FALSE),
     Url(FALSE, FALSE, "rival.com", FALSE)}
Lower(h) == IF h = "Acme.com" THEN "acme.com" ELSE h

\* extract_domain_name, utils/validation.py lines 40-64: the lower-cased
\* netloc without "www." and port; a URL without scheme has an empty netloc
ExtractDomainName(u) == IF u.scheme THEN Lower(u.host) ELSE ""

\* lines 141-144
RoleToDomain(client_url, competitor_url) ==
    [k \in {"client", "competitor"} |->
        IF k = "client" THEN ExtractDomainName(client_url)
        ELSE ExtractDomainName(competitor_url)]

\* lines 147-149: the labels of the records
RelabelRecords(recs, r2d) ==
    [i \in 1..Len(recs) |->
        [recs[i] EXCEPT !.label = Get(r2d, recs[i].label, recs[i].label)]]

\* variant: the keys of the means stay the role names
RelabelMeans_Mut(means, order, r2d) == means

\* lines 152-158: the keys of the means, inserted in the order of `order`
RECURSIVE RelabelMeans(_, _, _)
RelabelMeans(means, order, r2d) ==
    IF order = <<>> THEN <<>>
    ELSE LET n == Len(order)
             key == order[n]
             rest == RelabelMeans(means, SubSeq(order, 1, n - 1), r2d)
         IN  IF key \in DOMAIN means
             THEN Put(rest, Get(r2d, key, key), means[key])
             ELSE rest

\* the keys of a dict built by process_json_data, in insertion order
KeyOrder(data) == [i \in 1..Len(data) |-> data[i].key]

\* models of the native sizes 384 and 768 (tests/test_embeddings.py, line 29)
NativeSizes == {384, 768}
BigBases == {[i \in 1..d |-> i % 2] : d \in NativeSizes}

\* what extract_multiple_files returns: each item's source is its role
SiteData == {JsonData(nc, nk, "client") : nc \in 0..MaxItems, nk \in 0..MaxItems}

CoreCall ==
    [model |-> NoName, config_model |-> DEFAULT_MODEL_NAME,
     embedding_dim |-> NoneArg, config_embedding_dim |-> [kind |-> "int", val |-> 768],
     client_url |-> Url(TRUE, TRUE, "Acme.com", FALSE),
     competitor_url |-> Url(TRUE, FALSE, "rival.com", TRUE),
     queries |-> <<"t1", "t2">>,
     hub |-> [base |-> CoreBase, asym |-> TRUE],
     site |-> CoreJson]

ModelArgs == {NoName, "fast", "google/embeddinggemma-300m", "all-mpnet-base-v2"}
ConfigModels == {DEFAULT_MODEL_NAME, "all-MiniLM-L6-v2", NoName}

\* the calls of analyze_urls: one part of the input varies at a time
AnalyzeInputs ==
    {[CoreCall EXCEPT !.model = m, !.config_model = cm, !.embedding_dim = d]
        : m \in ModelArgs, cm \in ConfigModels, d \in DimArgs}
    \cup {[CoreCall EXCEPT !.config_embedding_dim = cd, !.embedding_dim = d]
        : cd \in DimArgs, d \in {NoneArg, [kind |-> "int", val |-> 256]}}
    \cup {[CoreCall EXCEPT !.client_url = u, !.competitor_url = v]
        : u \in UrlChoices, v \in UrlChoices}
    \cup {[CoreCall EXCEPT !.queries = q] : q \in TextLists}
    \cup {[CoreCall EXCEPT !.site = j] : j \in SiteData}
    \cup {[CoreCall EXCEPT !.hub = [base |-> b, asym |-> a]]
        : b \in ModelBases, a \in BOOLEAN}
    \cup {[CoreCall EXCEPT !.hub = [base |-> b, asym |-> TRUE], !.embedding_dim = d,
                           !.model = m]
        : b \in BigBases, d \in {[kind |-> "int", val |-> v] : v \in {128, 300, 768}},
          m \in {NoName, "fast"}}

NoCall == [CoreCall EXCEPT !.queries = <<>>, !.site = <<>>]
NoVizArgs == <<>>

----------------------------------------------------------------------------
(* VersionManager: utils/versioning.py *)

\* A file name is a sequence of tokens: single characters ("-", ".", the
\* digits) and words that the patterns treat as a whole.
DigitChars == <<"0", "1", "2", "3", "4", "5", "6", "7", "8", "9">>
IsDigit(tok) == \E i \in 1..10 : DigitChars[i] = tok
DigitVal(tok) == (CHOOSE i \in 1..10 : DigitChars[i] = tok) - 1
IsChar(tok) == IsDigit(tok) \/ tok \in {"-", "."}

\* f"{version}" and int(match.group(1))
RECURSIVE FormatInt(_)
FormatInt(v) ==
    IF v < 10 THEN <<DigitChars[v + 1]>>
    ELSE FormatInt(v \div 10) \o <<DigitChars[(v % 10) + 1]>>
RECURSIVE ParseInt(_)
ParseInt(ds) ==
    IF ds = <<>> THEN 0
    ELSE ParseInt(SubSeq(ds, 1, Len(ds) - 1)) * 10 + DigitVal(ds[Len(ds)])

\* the base names and extensions the program writes: the reports
\* (plotly_3d.py lines 379 and 420), the extracted data (extractor.py,
\* save_extracted_data) and the scraped pages (scraper.py lines 62-72)
ExtHtml == <<".", "html">>
ExtJson == <<".", "json">>
ReportBase == <<"embedding_comparison">>
SimpleBase == <<"embedding_analysis_2d">>
DataBase == <<"extracted_html_data">>

\* scraper.py lines 62-70: f"{role}-{domain}" for a URL without path, the
\* domain being the netloc (case and port kept) with "www." removed
ScrapedBase(role, url) ==
    <<role, "-", url.host>> \o (IF url.port THEN <<":8080">> ELSE <<>>)

\* the pages of https://acme.com/ and of https://acme.com/v2.html, whose
\* path slugifies to "v2-html"
PageBase == ScrapedBase("client", Url(TRUE, FALSE, "acme.com", FALSE))
SubPageBase == PageBase \o <<"-v", "2", "-", "html">>
Targets ==
    {[base |-> ReportBase, ext |-> ExtHtml], [base |-> PageBase, ext |-> ExtHtml],
     [base |-> SubPageBase, ext |-> ExtHtml]}
KeepChoices == {0, 1, 5}

\* get_versioned_filename, line 52
VersionedName(base, ext, v) == base \o <<"-v">> \o FormatInt(v) \o ext

\* output_dir.glob(f"{base_name}-v*{extension}"), lines 34 and 78
GlobMatches(name, base, ext) ==
    /\ Len(name) >= Len(base) + 1 + Len(ext)
    /\ SubSeq(name, 1, Len(base) + 1) = base \o <<"-v">>
    /\ SubSeq(name, Len(name) - Len(ext) + 1, Len(name)) = ext

\* the number of digit tokens of name from position p on
RECURSIVE DigitRun(_, _)
DigitRun(name, p) ==
    IF p <= Len(name) /\ IsDigit(name[p]) THEN 1 + DigitRun(name, p + 1) ELSE 0

\* re.match(f"{base_name}-v(\\d+){extension}", name), lines 31-35 and 75-79:
\* the match starts at the name's first character and need not reach its
\* end, and the extension's "." stands for any one character.  The lengths
\* that the group (\d+) can take:
GroupLengths(name, base, ext) ==
    LET p == Len(base) + 2
    IN  {g \in 1..DigitRun(name, p) :
            /\ p + g + 1 <= Len(name)
            /\ IsChar(name[p + g])
            /\ name[p + g + 1] = ext[2]}

Matches(name, base, ext) ==
    /\ GlobMatches(name, base, ext)
    /\ GroupLengths(name, base, ext) # {}

\* int(match.group(1)): the group is greedy
MatchedVersion(name, base, ext) ==
    LET gs == GroupLengths(name, base, ext)
        g == CHOOSE x \in gs : \A y \in gs : y <= x
    IN  ParseInt(SubSeq(name, Len(base) + 2, Len(base) + 1 + g))

MatchingFiles(files, base, ext) == {f \in files : Matches(f, base, ext)}

\* get_next_version, lines 21-39: max(existing_versions, default=0) + 1
GetNextVersion(files, base, ext) ==
    LET vs == {MatchedVersion(f, base, ext) : f \in MatchingFiles(files, base, ext)}
    IN  (IF vs = {} THEN 0 ELSE CHOOSE x \in vs : \A y \in vs : y <= x) + 1

\* cleanup_old_versions, lines 67-88: the sets of files that may be kept,
\* `keep` files of the highest versions (the sort leaves ties in glob order)
KeptSets(files, base, ext, keep) ==
    LET ms == MatchingFiles(files, base, ext)
        n == IF keep < Cardinality(ms) THEN keep ELSE Cardinality(ms)
    IN  {K \in SUBSET ms :
            /\ Cardinality(K) = n
            /\ \A k \in K, f \in ms \ K :
                  MatchedVersion(k, base, ext) >= MatchedVersion(f, base, ext)}

NoTarget == [base |-> <<>>, ext |-> <<>>]
NoPath == <<>>

\* create_3d_visualization returns str(output_file): the versioned path of the
\* report in the output directory and nothing else
ReportPath(files) ==
    [path |-> VersionedName(ReportBase, ExtHtml, GetNextVersion(files, ReportBase, ExtHtml))]
NoValue == [path |-> <<>>]

\* create_simple_visualization returns the versioned path of the 2D report
SimplePath(files) ==
    [path |-> VersionedName(SimpleBase, ExtHtml, GetNextVersion(files, SimpleBase, ExtHtml))]

\* the output directory a call finds: empty, or as earlier runs left it
OutputDirs ==
    {{}, {VersionedName(ReportBase, ExtHtml, 2), VersionedName(SimpleBase, ExtHtml, 1),
          VersionedName(ScrapedBase("client", CoreCall.client_url), ExtHtml, 1),
          VersionedName(DataBase, ExtJson, 1)}}

----------------------------------------------------------------------------
(* Config: core/config.py *)

\* values of a YAML document and of the fields of the dataclasses, tagged
\* with their Python type
IntV(x)   == [t |-> "int", n |-> x, s |-> ""]
StrV(x)   == [t |-> "str", n |-> 0, s |-> x]
FloatV(x) == [t |-> "float", n |-> x, s |-> ""]
ListV(x)  == [t |-> "list", n |-> 0, s |-> x]
MapV(x)   == [t |-> "dict", n |-> 0, s |-> "", m |-> x]
NullV     == [t |-> "null", n |-> 0, s |-> ""]
NoEntry   == [t |-> "absent", n |-> 0, s |-> ""]
EmptyMap  == [k \in {} |-> NullV]

\* lines 10-21
ScrapingDefaults ==
    [user_agents      |-> ListV("default user agents"),
     timeout          |-> IntV(30),
     retry_attempts   |-> IntV(3),
     retry_delay      |-> FloatV(1),
     rate_limit_delay |-> FloatV(1)]

\* lines 24-31
EmbeddingDefaults ==
    [model_name    |-> StrV(DEFAULT_MODEL_NAME),
     embedding_dim |-> IntV(768),
     batch_size    |-> IntV(32),
     max_length    |-> IntV(512),
     cache_dir     |-> StrV(".cache/embeddings")]

\* lines 34-42
VisualizationDefaults ==
    [plot_height      |-> IntV(600),
     plot_width       |-> IntV(800),
     dot_size         |-> IntV(8),
     client_color     |-> StrV("#1f77b4"),
     competitor_color |-> StrV("#ff7f0e"),
     comparison_color |-> StrV("#2ca02c")]

\* the nested sections in the order load_from_file reads them
SectionNames == <<"scraping", "embedding", "visualization">>

SectionClass(s) ==
    IF s = "scraping" THEN "ScrapingConfig"
    ELSE IF s = "embedding" THEN "EmbeddingConfig"
    ELSE "VisualizationConfig"

FieldDefaults(s) ==
    IF s = "scraping" THEN ScrapingDefaults
    ELSE IF s = "embedding" THEN EmbeddingDefaults
    ELSE VisualizationDefaults

\* ScrapingConfig(), EmbeddingConfig(), VisualizationConfig()
SectionDefaults(s) == [cls |-> SectionClass(s), f |-> FieldDefaults(s)]

\* the generated __init__ of a dataclass called with keyword arguments: an
\* unexpected keyword raises TypeError, a missing one takes its default and
\* no value is checked against the annotated type
Dataclass(s, kwargs) ==
    IF DOMAIN kwargs \subseteq DOMAIN FieldDefaults(s)
    THEN [raised |-> "none",
          obj |-> [cls |-> SectionClass(s),
                   f |-> [k \in DOMAIN FieldDefaults(s) |->
                             IF k \in DOMAIN kwargs THEN kwargs[k]
                             ELSE FieldDefaults(s)[k]]]]
    ELSE [raised |-> "TypeError", obj |-> SectionDefaults(s)]

\* isinstance(v, int) and v > 0
PositiveInt(val) == val.t = "int" /\ val.n > 0

\* lines 97-102, 114-116, 128-130: the body of the try of a section
BuildSection(s, kwargs) ==
    LET r == Dataclass(s, kwargs)
    IN  IF r.raised # "none" THEN r
        ELSE IF s = "scraping" /\ ~PositiveInt(r.obj.f.timeout)
             THEN [raised |-> "ValueError", obj |-> r.obj]
             ELSE r

\* line 97: 'scraping' in data and isinstance(data['scraping'], dict)
IsSection(data, s) == s \in DOMAIN data /\ data[s].t = "dict"

\* lines 46-66: Config()
DefaultConfig ==
    [output_dir      |-> StrV("outputs"),
     test_output_dir |-> StrV("outputs/test_runs"),
     log_dir         |-> StrV("logs"),
     cache_dir       |-> StrV(".cache"),
     scraping        |-> SectionDefaults("scraping"),
     embedding       |-> SectionDefaults("embedding"),
     visualization   |-> SectionDefaults("visualization"),
     log_level       |-> StrV("INFO"),
     log_format      |-> StrV("%(asctime)s - %(name)s - %(levelname)s - %(message)s")]

\* variant: log_level is not among the keys copied from the file
TopLevelKeys_Mut ==
    {"output_dir", "test_output_dir", "log_dir", "cache_dir", "log_format"}

\* line 143
TopLevelKeys ==
    {"output_dir", "test_output_dir", "log_dir", "cache_dir", "log_level", "log_format"}

\* lines 143-146: setattr(config, key, data[key]) for the keys of the file
UpdateTopLevelFields(cfg, data) ==
    [k \in DOMAIN cfg |->
        IF k \in TopLevelKeys /\ k \in DOMAIN data THEN data[k] ELSE cfg[k]]

\* line 223
LogLevels == {"DEBUG", "INFO", "WARNING", "ERROR", "CRITICAL"}

NoMessage == "none"

\* lines 215-224: the message of the ValueError validate() raises, NoMessage
\* when it returns
Validate(cfg) ==
    IF ~PositiveInt(cfg.scraping.f.timeout)
    THEN "scraping.timeout must be a positive integer"
    ELSE IF ~PositiveInt(cfg.embedding.f.batch_size)
    THEN "embedding.batch_size must be a positive integer"
    ELSE IF ~(cfg.log_level.t = "str" /\ cfg.log_level.s \in LogLevels)
    THEN "log_level must be one of: DEBUG, INFO, WARNING, ERROR, CRITICAL"
    ELSE NoMessage

\* line 91: yaml.safe_load(f) or {}
LoadedData(file) == IF file.t = "dict" THEN file.m ELSE EmptyMap

\* the answers typed at a prompt
Responses == {"y", "Y", "n", "yes"}

\* str.lower on an answer
LowerResponse(r) == IF r = "Y" THEN "y" ELSE r

\* lines 107, 121, 135, 163: response.lower() != 'y'
Declined(r) == LowerResponse(r) # "y"

\* the contents of the configuration files
ScrapingEntries ==
    {NoEntry,
     MapV([timeout |-> IntV(60), retry_attempts |-> IntV(5)]),
     MapV([timeout |-> StrV("invalid"), retry_attempts |-> IntV(5)]),
     MapV([timeout |-> IntV(0)]),
     IntV(5)}
EmbeddingEntries ==
    {NoEntry,
     MapV([model_name |-> StrV("custom-model"), embedding_dim |-> IntV(512)]),
     MapV([batch_size |-> IntV(0)]),
     MapV([batch_size |-> IntV(16), device |-> StrV("cpu")])}
VisualizationEntries ==
    {NoEntry,
     MapV([plot_height |-> IntV(800), plot_width |-> IntV(1000)]),
     MapV([theme |-> StrV("dark")])}
TopLevelEntries ==
    {EmptyMap,
     [output_dir |-> StrV("custom_outputs")],
     [log_level |-> StrV("INVALID_LEVEL")],
     [log_level |-> StrV("DEBUG"), cache_dir |-> StrV("tmp")]}

WithEntry(m, k, e) == IF e = NoEntry THEN m ELSE Put(m, k, e)

ConfigFiles ==
    {NoEntry, NullV}
    \cup {MapV(WithEntry(WithEntry(WithEntry(top, "scraping", sc), "embedding", em),
                         "visualization", vi))
             : top \in TopLevelEntries, sc \in ScrapingEntries,
               em \in EmbeddingEntries, vi \in VisualizationEntries}

NoConfig == [none |-> TRUE]
NoResponse == "none"

----------------------------------------------------------------------------
VARIABLES
    pc,                  \* position in the running call
    op,                  \* the operation running: "none", "viz", "gen", "query",
                         \* "init", "process", "analyze"
    embeddings_data,     \* the records given to create_3d_visualization
    mean_embeddings,     \* label -> full-space group mean
    queries_mean,        \* full-space reference vector
    n_features,          \* number of features of all_embeddings
    reduced_embeddings,  \* n x 3 reduced points
    reduction_method,    \* "none", "PCA", "t-SNE"
    perplexity,          \* parameter given to TSNE (0: not computed)
    tsne_called,         \* TSNE.fit_transform was invoked
    tsne_raised,         \* ... and raised
    logged_method,       \* method named by the log line 95
    tsne_means,          \* label -> reduced-space centroid
    cosine_similarities, \* label -> score
    report_method,       \* method named in the plot title (lines 131-135)
    report_written,      \* the HTML file was written (lines 381-382)
    error,               \* exception raised to the caller, "none" if none
    failed_at,           \* the step that raised
    returned,            \* the call returned a value
    engine,              \* the EmbeddingGenerator the call is made on
    texts,               \* the texts / queries given to the call
    encode_calls,        \* calls made to the backing model, in order
    embeddings,          \* the (truncated) vectors the call produced
    out_records,         \* records returned by generate_query_embeddings
    out_mean,            \* mean returned by generate_query_embeddings
    init_arg,            \* embedding_dim argument given to __init__
    ctor_calls,          \* number of SentenceTransformer(...) constructions
    model_base,          \* the loaded model (NoModel: none)
    raw_embeddings,      \* the model's output before truncation
    json_data,           \* the sources given to process_json_data
    symbol_mapping,      \* source -> plot symbol
    size_mapping,        \* source -> marker size
    src_idx,             \* position of the loop over the sources
    elem_idx,            \* position of the loop over a source's elements
    element_embeddings,  \* vectors embedded so far for the current source
    doc_records,         \* embeddings_data of process_json_data
    doc_means,           \* top_level_embeddings of process_json_data
    skipped,             \* <<source, element>> positions whose embedding failed
    hub_model,           \* what SentenceTransformer(model_name) loads
    call_args,           \* arguments and environment of analyze_urls
    requested_embedding_dim,  \* result of resolve_embedding_dim
    resolved_model,      \* analyze_urls: resolved_model
    resolved_embedding_dim,   \* analyze_urls: resolved_embedding_dim
    dim_warning,         \* the "not supported; defaulting" warning was logged
    viz_args,            \* arguments given to create_3d_visualization
    first_run,           \* outcome of the preceding call on the same input
    return_value,        \* the value create_3d_visualization returned
    output_files,        \* names of the files in the output directory
    fs_target,           \* base name and extension of the running request
    versioned_path,      \* the path get_versioned_path returned
    cfg_file,            \* content of the configuration file (NoEntry: no file)
    cfg_interactive,     \* the interactive argument of load_from_file
    cfg_data,            \* the mapping read from the file
    config,              \* the Config object load_from_file builds
    cfg_idx,             \* index of the nested section being read
    cfg_pending,         \* what the open prompt asks about
    cfg_message,         \* parts of the message of the last ValueError or prompt
    response,            \* the last answer typed at a prompt
    cfg_saved,           \* save_to_file wrote the default configuration
    overwritten          \* a write replaced an existing file

vizVars == <<embeddings_data, mean_embeddings, queries_mean, n_features,
             reduced_embeddings, reduction_method, perplexity, tsne_called,
             tsne_raised, logged_method, tsne_means, cosine_similarities,
             report_method, report_written>>

engVars == <<engine, texts, encode_calls, embeddings, out_records, out_mean>>

initVars == <<init_arg, ctor_calls, model_base, hub_model>>

rawVars == <<raw_embeddings>>

repVars == <<first_run, return_value>>

fsVars == <<output_files, fs_target, versioned_path, overwritten>>

cfgVars == <<cfg_file, cfg_interactive, cfg_data, config, cfg_idx, cfg_pending,
             cfg_message, response, cfg_saved>>

\* no preceding call on this input
NoRun == [input |-> <<>>, method |-> "none", points |-> <<>>,
          tsne_called |-> FALSE, tsne_raised |-> FALSE]

\* the same records as a caller builds them again: no coordinates yet
StripCoords(recs) ==
    [i \in 1..Len(recs) |->
        [recs[i] EXCEPT !.x = NoCoord, !.y = NoCoord, !.z = NoCoord]]

anVars == <<call_args, requested_embedding_dim, resolved_model,
            resolved_embedding_dim, dim_warning, viz_args>>

\* the outputs of the loaded model for a batch; an engine whose construction
\* is not part of the operation may hold any model
LoadedOutputs(batch) ==
    IF model_base = NoModel THEN ModelOutputs(batch)
    ELSE {EncodeBatch(model_base, batch)}

pjVars == <<json_data, symbol_mapping, size_mapping, src_idx, elem_idx,
            element_embeddings, doc_records, doc_means, skipped>>

vars == <<pc, op, vizVars, error, failed_at, returned, engVars, initVars, rawVars, pjVars, anVars,
          repVars, fsVars, cfgVars>>

n_samples == Len(embeddings_data)

Init ==
    /\ pc = "idle"
    /\ op = "none"
    /\ embeddings_data = <<>>
    /\ mean_embeddings = <<>>
    /\ queries_mean = <<>>
    /\ n_features = 0
    /\ reduced_embeddings = <<>>
    /\ reduction_method = "none"
    /\ perplexity = 0
    /\ tsne_called = FALSE
    /\ tsne_raised = FALSE
    /\ logged_method = "none"
    /\ tsne_means = <<>>
    /\ cosine_similarities = <<>>
    /\ report_method = "none"
    /\ report_written = FALSE
    /\ error = "none"
    /\ failed_at = "none"
    /\ returned = FALSE
    /\ engine = NoEngine
    /\ texts = <<>>
    /\ encode_calls = <<>>
    /\ embeddings = <<>>
    /\ out_records = <<>>
    /\ out_mean = NoMean
    /\ init_arg = NoneArg
    /\ ctor_calls = 0
    /\ model_base = NoModel
    /\ raw_embeddings = <<>>
    /\ json_data = <<>>
    /\ symbol_mapping = NoMapping
    /\ size_mapping = NoMapping
    /\ src_idx = 0
    /\ elem_idx = 0
    /\ element_embeddings = <<>>
    /\ doc_records = <<>>
    /\ doc_means = <<>>
    /\ skipped = <<>>
    /\ hub_model = CoreCall.hub
    /\ call_args = NoCall
    /\ requested_embedding_dim = NoneArg
    /\ resolved_model = NoName
    /\ resolved_embedding_dim = NoneArg
    /\ dim_warning = FALSE
    /\ viz_args = NoVizArgs
    /\ first_run = NoRun
    /\ return_value = NoValue
    /\ output_files = {}
    /\ fs_target = NoTarget
    /\ versioned_path = NoPath
    /\ overwritten = FALSE
    /\ cfg_file = NoEntry
    /\ cfg_interactive = FALSE
    /\ cfg_data = EmptyMap
    /\ config = NoConfig
    /\ cfg_idx = 0
    /\ cfg_pending = "none"
    /\ cfg_message = <<>>
    /\ response = NoResponse
    /\ cfg_saved = FALSE

----------------------------------------------------------------------------
(* create_3d_visualization *)

\* the caller invokes create_3d_visualization(embeddings_data, mean_embeddings, queries_mean, ...)
CallVisualization ==
    /\ pc = "idle"
    /\ \E inp \in VizInputs :
          /\ embeddings_data' = MkRecords(inp[1][1], inp[1][2], inp[1][3])
          /\ n_features' = inp[1][2]
          /\ mean_embeddings' = inp[2][1]
          /\ queries_mean' = inp[2][2]
          /\ output_files' \in
                IF inp \in CoreRecordShapes \X CoreMeanInputs THEN OutputDirs ELSE {{}}
    /\ pc' = "reduce"
    /\ op' = "viz"
    /\ UNCHANGED <<reduced_embeddings, reduction_method, perplexity, tsne_called,
                   tsne_raised, logged_method, tsne_means, cosine_similarities,
                   report_method, report_written, error, failed_at, returned>>
    /\ UNCHANGED engVars
    /\ UNCHANGED initVars
    /\ UNCHANGED rawVars
    /\ UNCHANGED pjVars
    /\ UNCHANGED anVars
    /\ UNCHANGED repVars
    /\ UNCHANGED <<fs_target, versioned_path, overwritten>>
    /\ UNCHANGED cfgVars

\* the outer `except Exception` of lines 399-400
RaiseVisualizationError(step) ==
    /\ pc' = "error"
    /\ error' = "VisualizationError"
    /\ failed_at' = step

\* lines 54-69: fewer than MIN_SAMPLES_FOR_TSNE samples, PCA
ReducePCA ==
    /\ pc = "reduce"
    /\ UsesPCADirectly(n_samples)
    /\ IF PCARaises(n_samples, n_features, PCAComponents(n_samples))
       THEN /\ RaiseVisualizationError("reduce")
            /\ UNCHANGED <<reduced_embeddings, reduction_method, logged_method>>
       ELSE /\ \E s \in EstimatorSeeds(RANDOM_STATE) :
                  reduced_embeddings' = LinearReduce(AllEmbeddings(embeddings_data), s)
            /\ reduction_method' = "PCA"
            /\ logged_method' = "PCA"
            /\ pc' = "attach"
            /\ UNCHANGED <<error, failed_at>>
    /\ UNCHANGED <<op, embeddings_data, mean_embeddings, queries_mean, n_features,
                   perplexity, tsne_called, tsne_raised, tsne_means,
                   cosine_similarities, report_method, report_written, returned>>
    /\ UNCHANGED engVars
    /\ UNCHANGED initVars
    /\ UNCHANGED rawVars
    /\ UNCHANGED pjVars
    /\ UNCHANGED anVars
    /\ UNCHANGED repVars
    /\ UNCHANGED fsVars
    /\ UNCHANGED cfgVars

\* lines 70-84: t-SNE with the adaptive perplexity; it may raise
ReduceTSNE ==
    /\ pc = "reduce"
    /\ ~UsesPCADirectly(n_samples)
    /\ perplexity' = AdaptivePerplexity(n_samples)
    /\ tsne_called' = TRUE
    /\ \E raises \in TSNEOutcomes(AllEmbeddings(embeddings_data), first_run) :
          /\ tsne_raised' = raises
          /\ IF raises
             THEN /\ pc' = "fallback"
                  /\ UNCHANGED <<reduced_embeddings, reduction_method, logged_method>>
             ELSE /\ \E s \in EstimatorSeeds(RANDOM_STATE) :
                        reduced_embeddings' = TSNETransform(AllEmbeddings(embeddings_data), s)
                  /\ reduction_method' = "t-SNE"
                  /\ logged_method' = "t-SNE"
                  /\ pc' = "attach"
    /\ UNCHANGED <<op, embeddings_data, mean_embeddings, queries_mean, n_features,
                   tsne_means, cosine_similarities, report_method, report_written,
                   error, failed_at, returned>>
    /\ UNCHANGED engVars
    /\ UNCHANGED initVars
    /\ UNCHANGED rawVars
    /\ UNCHANGED pjVars
    /\ UNCHANGED anVars
    /\ UNCHANGED repVars
    /\ UNCHANGED fsVars
    /\ UNCHANGED cfgVars

\* lines 85-93: PCA after a t-SNE failure
ReduceFallback ==
    /\ pc = "fallback"
    /\ IF PCARaises(n_samples, n_features, PCAComponents(n_samples))
       THEN /\ RaiseVisualizationError("reduce")
            /\ UNCHANGED <<reduced_embeddings, reduction_method, logged_method>>
       ELSE /\ \E s \in EstimatorSeeds(RANDOM_STATE) :
                  reduced_embeddings' = LinearReduce(AllEmbeddings(embeddings_data), s)
            /\ reduction_method' = "PCA"
            /\ logged_method' = "PCA"
            /\ pc' = "attach"
            /\ UNCHANGED <<error, failed_at>>
    /\ UNCHANGED <<op, embeddings_data, mean_embeddings, queries_mean, n_features,
                   perplexity, tsne_called, tsne_raised, tsne_means,
                   cosine_similarities, report_method, report_written, returned>>
    /\ UNCHANGED engVars
    /\ UNCHANGED initVars
    /\ UNCHANGED rawVars
    /\ UNCHANGED pjVars
    /\ UNCHANGED anVars
    /\ UNCHANGED repVars
    /\ UNCHANGED fsVars
    /\ UNCHANGED cfgVars

\* lines 98-99
AttachCoordinates ==
    /\ pc = "attach"
    /\ embeddings_data' = AttachAll(embeddings_data, reduced_embeddings)
    /\ pc' = "means"
    /\ UNCHANGED <<op, mean_embeddings, queries_mean, n_features, reduced_embeddings,
                   reduction_method, perplexity, tsne_called, tsne_raised,
                   logged_method, tsne_means, cosine_similarities, report_method,
                   report_written, error, failed_at, returned>>
    /\ UNCHANGED engVars
    /\ UNCHANGED initVars
    /\ UNCHANGED rawVars
    /\ UNCHANGED pjVars
    /\ UNCHANGED anVars
    /\ UNCHANGED repVars
    /\ UNCHANGED fsVars
    /\ UNCHANGED cfgVars

\* lines 102-112
ComputeTsneMeans ==
    /\ pc = "means"
    /\ tsne_means' = TsneMeans(embeddings_data)
    /\ pc' = "score"
    /\ UNCHANGED <<op, embeddings_data, mean_embeddings, queries_mean, n_features,
                   reduced_embeddings, reduction_method, perplexity, tsne_called,
                   tsne_raised, logged_method, cosine_similarities, report_method,
                   report_written, error, failed_at, returned>>
    /\ UNCHANGED engVars
    /\ UNCHANGED initVars
    /\ UNCHANGED rawVars
    /\ UNCHANGED pjVars
    /\ UNCHANGED anVars
    /\ UNCHANGED repVars
    /\ UNCHANGED fsVars
    /\ UNCHANGED cfgVars

\* lines 115-118
ComputeCosineSimilarities ==
    /\ pc = "score"
    /\ IF ScoreRaises(mean_embeddings, queries_mean)
       THEN /\ RaiseVisualizationError("score")
            /\ UNCHANGED cosine_similarities
       ELSE /\ cosine_similarities' = CosineSimilarities(mean_embeddings, queries_mean)
            /\ pc' = "figure"
            /\ UNCHANGED <<error, failed_at>>
    /\ UNCHANGED <<op, embeddings_data, mean_embeddings, queries_mean, n_features,
                   reduced_embeddings, reduction_method, perplexity, tsne_called,
                   tsne_raised, logged_method, tsne_means, report_method,
                   report_written, returned>>
    /\ UNCHANGED engVars
    /\ UNCHANGED initVars
    /\ UNCHANGED rawVars
    /\ UNCHANGED pjVars
    /\ UNCHANGED anVars
    /\ UNCHANGED repVars
    /\ UNCHANGED fsVars
    /\ UNCHANGED cfgVars

\* lines 123-376: the figure; its title names the reduction method
\* lines 218-231: pd.DataFrame([]) has no column "Source", so px.bar raises
\* when there is no similarity score
FigureRaises(sims) == DOMAIN sims = {}

BuildFigure ==
    /\ pc = "figure"
    /\ report_method' = reduction_method
    /\ IF FigureRaises(cosine_similarities)
       THEN RaiseVisualizationError("figure")
       ELSE /\ pc' = "write"
            /\ UNCHANGED <<error, failed_at>>
    /\ UNCHANGED <<op, embeddings_data, mean_embeddings, queries_mean, n_features,
                   reduced_embeddings, reduction_method, perplexity, tsne_called,
                   tsne_raised, logged_method, tsne_means, cosine_similarities,
                   report_written, returned>>
    /\ UNCHANGED engVars
    /\ UNCHANGED initVars
    /\ UNCHANGED rawVars
    /\ UNCHANGED pjVars
    /\ UNCHANGED anVars
    /\ UNCHANGED repVars
    /\ UNCHANGED fsVars
    /\ UNCHANGED cfgVars

\* lines 387-395: print() of the similarity scores, whose text holds
\* non-ASCII characters, raises when sys.stdout cannot encode them or is closed
PrintOutcomes == BOOLEAN

\* variant: the file is written as soon as the centroids are computed
WriteReport_Mut ==
    /\ pc = "score"
    /\ report_written' = TRUE
    /\ output_files' = output_files \cup {ReportPath(output_files).path}
    /\ \E raises \in PrintOutcomes :
          IF raises
          THEN /\ RaiseVisualizationError("print")
               /\ UNCHANGED <<returned, return_value>>
          ELSE /\ returned' = TRUE
               /\ return_value' = ReportPath(output_files)
               /\ pc' = "done"
               /\ UNCHANGED <<error, failed_at>>
    /\ UNCHANGED <<op, embeddings_data, mean_embeddings, queries_mean, n_features,
                   reduced_embeddings, reduction_method, perplexity, tsne_called,
                   tsne_raised, logged_method, tsne_means, cosine_similarities,
                   report_method>>
    /\ UNCHANGED engVars
    /\ UNCHANGED initVars
    /\ UNCHANGED rawVars
    /\ UNCHANGED pjVars
    /\ UNCHANGED anVars
    /\ UNCHANGED first_run
    /\ UNCHANGED <<fs_target, versioned_path, overwritten>>
    /\ UNCHANGED cfgVars

\* lines 378-397: write the HTML file, print the similarity scores and
\* return the path; a failing print leaves through line 400 with the file
\* on disk
WriteReport ==
    /\ pc = "write"
    /\ report_written' = TRUE
    /\ output_files' = output_files \cup {ReportPath(output_files).path}
    /\ \E raises \in PrintOutcomes :
          IF raises
          THEN /\ RaiseVisualizationError("print")
               /\ UNCHANGED <<returned, return_value>>
          ELSE /\ returned' = TRUE
               /\ return_value' = ReportPath(output_files)
               /\ pc' = "done"
               /\ UNCHANGED <<error, failed_at>>
    /\ UNCHANGED <<op, embeddings_data, mean_embeddings, queries_mean, n_features,
                   reduced_embeddings, reduction_method, perplexity, tsne_called,
                   tsne_raised, logged_method, tsne_means, cosine_similarities,
                   report_method>>
    /\ UNCHANGED engVars
    /\ UNCHANGED initVars
    /\ UNCHANGED rawVars
    /\ UNCHANGED pjVars
    /\ UNCHANGED anVars
    /\ UNCHANGED first_run
    /\ UNCHANGED <<fs_target, versioned_path, overwritten>>
    /\ UNCHANGED cfgVars

\* the caller invokes create_simple_visualization(embeddings_data, output_dir)
\* with records that carry coordinates or not
CallSimpleVisualization ==
    /\ pc = "idle"
    /\ \E n \in SimpleCounts, attached \in BOOLEAN :
          embeddings_data' =
              IF attached
              THEN AttachAll(MkRecords(n, TARGET_COMPONENTS, "mixed"),
                             LinearReduce(AllEmbeddings(MkRecords(n, TARGET_COMPONENTS,
                                                                  "mixed")),
                                          RANDOM_STATE))
              ELSE MkRecords(n, TARGET_COMPONENTS, "mixed")
    /\ n_features' = TARGET_COMPONENTS
    /\ output_files' \in OutputDirs
    /\ pc' = "simple"
    /\ op' = "simple"
    /\ UNCHANGED <<mean_embeddings, queries_mean, reduced_embeddings,
                   reduction_method, perplexity, tsne_called, tsne_raised,
                   logged_method, tsne_means, cosine_similarities, report_method,
                   report_written, error, failed_at, returned>>
    /\ UNCHANGED <<engVars, initVars, rawVars, pjVars, anVars, repVars, cfgVars>>
    /\ UNCHANGED <<fs_target, versioned_path, overwritten>>

\* lines 406-416: px.scatter raises when the frame has no column "x" or "y"
SimpleFigureRaises(recs) ==
    recs = <<>> \/ \E i \in 1..Len(recs) : recs[i].x = NoCoord \/ recs[i].y = NoCoord

\* lines 403-426: the 2D figure is written to the next version of
\* embedding_analysis_2d-v*.html and its path returned; any exception
\* becomes VisualizationError
CreateSimpleVisualization ==
    /\ pc = "simple"
    /\ IF SimpleFigureRaises(embeddings_data)
       THEN /\ RaiseVisualizationError("figure")
            /\ UNCHANGED <<report_written, returned, return_value, output_files>>
       ELSE /\ report_written' = TRUE
            /\ returned' = TRUE
            /\ return_value' = SimplePath(output_files)
            /\ output_files' = output_files \cup {SimplePath(output_files).path}
            /\ pc' = "done"
            /\ UNCHANGED <<error, failed_at>>
    /\ UNCHANGED <<op, embeddings_data, mean_embeddings, queries_mean, n_features,
                   reduced_embeddings, reduction_method, perplexity, tsne_called,
                   tsne_raised, logged_method, tsne_means, cosine_similarities,
                   report_method>>
    /\ UNCHANGED <<engVars, initVars, rawVars, pjVars, anVars, first_run, cfgVars>>
    /\ UNCHANGED <<fs_target, versioned_path, overwritten>>

\* create_3d_visualization is called again with the same vectors, means and
\* queries mean; the outcome of the first call is kept for comparison (the
\* callers that repeat a call are those passing the means of CoreMeanInputs)
RepeatVisualization ==
    /\ pc \in {"done", "error"}
    /\ op = "viz"
    /\ first_run = NoRun
    /\ <<mean_embeddings, queries_mean>> \in CoreMeanInputs
    /\ first_run' = [input |-> AllEmbeddings(embeddings_data),
                     method |-> reduction_method, points |-> reduced_embeddings,
                     tsne_called |-> tsne_called, tsne_raised |-> tsne_raised]
    /\ embeddings_data' = StripCoords(embeddings_data)
    /\ reduced_embeddings' = <<>>
    /\ reduction_method' = "none"
    /\ perplexity' = 0
    /\ tsne_called' = FALSE
    /\ tsne_raised' = FALSE
    /\ logged_method' = "none"
    /\ tsne_means' = <<>>
    /\ cosine_similarities' = <<>>
    /\ report_method' = "none"
    /\ report_written' = FALSE
    /\ error' = "none"
    /\ failed_at' = "none"
    /\ returned' = FALSE
    /\ return_value' = NoValue
    /\ pc' = "reduce"
    /\ UNCHANGED <<op, mean_embeddings, queries_mean, n_features, engVars,
                   initVars, rawVars, pjVars, anVars, fsVars, cfgVars>>

(* EmbeddingGenerator.generate_embeddings, lines 74-93 *)

\* the outer `except Exception` of lines 92-93 and 175-176
RaiseEmbeddingError(step) ==
    /\ pc' = "error"
    /\ error' = "EmbeddingError"
    /\ failed_at' = step

CallGenerateEmbeddings ==
    /\ pc = "idle"
    /\ \E e \in EngineChoices, t \in TextLists :
          /\ engine' = e
          /\ texts' = t
    /\ op' = "gen"
    /\ pc' = "gen_encode"
    /\ UNCHANGED <<vizVars, error, failed_at, returned, encode_calls, embeddings,
                   out_records, out_mean>>
    /\ UNCHANGED initVars
    /\ UNCHANGED rawVars
    /\ UNCHANGED pjVars
    /\ UNCHANGED anVars
    /\ UNCHANGED repVars
    /\ UNCHANGED fsVars
    /\ UNCHANGED cfgVars

\* lines 86-93: model.encode(texts), truncation, return; the model may raise
GenerateEmbeddings ==
    /\ pc = "gen_encode"
    /\ encode_calls' = Append(encode_calls, [method |-> "encode", args |-> texts])
    /\ \/ /\ RaiseEmbeddingError("encode")
          /\ UNCHANGED <<embeddings, returned, raw_embeddings>>
       \/ \E out \in LoadedOutputs(texts) :
             /\ raw_embeddings' = out
             /\ embeddings' = ApplyTruncation(out, engine.embedding_dim)
             /\ returned' = TRUE
             /\ pc' = "done"
             /\ UNCHANGED <<error, failed_at>>
    /\ UNCHANGED <<op, vizVars, engine, texts, out_records, out_mean>>
    /\ UNCHANGED initVars
    /\ UNCHANGED pjVars
    /\ UNCHANGED anVars
    /\ UNCHANGED repVars
    /\ UNCHANGED fsVars
    /\ UNCHANGED cfgVars

(* EmbeddingGenerator.generate_query_embeddings, lines 141-176 *)

CallGenerateQueryEmbeddings ==
    /\ pc = "idle"
    /\ \E e \in EngineChoices, q \in TextLists :
          /\ engine' = e
          /\ texts' = q
    /\ op' = "query"
    /\ pc' = "query_encode"
    /\ UNCHANGED <<vizVars, error, failed_at, returned, encode_calls, embeddings,
                   out_records, out_mean>>
    /\ UNCHANGED initVars
    /\ UNCHANGED rawVars
    /\ UNCHANGED pjVars
    /\ UNCHANGED anVars
    /\ UNCHANGED repVars
    /\ UNCHANGED fsVars
    /\ UNCHANGED cfgVars

\* lines 155-156: _encode_queries and _apply_truncation; the model may raise
EncodeQueries ==
    /\ pc = "query_encode"
    /\ encode_calls' = Append(encode_calls,
                              [method |-> QueryEncoder(engine), args |-> texts])
    /\ \/ /\ RaiseEmbeddingError("encode")
          /\ UNCHANGED <<embeddings, raw_embeddings>>
       \/ \E out \in LoadedOutputs(texts) :
             /\ raw_embeddings' = out
             /\ embeddings' = ApplyTruncation(out, engine.embedding_dim)
             /\ pc' = "query_mean"
             /\ UNCHANGED <<error, failed_at>>
    /\ UNCHANGED <<op, vizVars, engine, texts, returned, out_records, out_mean>>
    /\ UNCHANGED initVars
    /\ UNCHANGED pjVars
    /\ UNCHANGED anVars
    /\ UNCHANGED repVars
    /\ UNCHANGED fsVars
    /\ UNCHANGED cfgVars

\* lines 159-173: the records, np.mean over the vectors, return
BuildQueryRecords ==
    /\ pc = "query_mean"
    /\ out_records' = QueryRecords(embeddings, texts)
    /\ out_mean' = NpMean(embeddings)
    /\ returned' = (op = "query")
    /\ pc' = IF op = "analyze" THEN "an_viz" ELSE "done"
    /\ UNCHANGED <<op, vizVars, engine, texts, encode_calls, embeddings,
                   error, failed_at>>
    /\ UNCHANGED initVars
    /\ UNCHANGED rawVars
    /\ UNCHANGED pjVars
    /\ UNCHANGED anVars
    /\ UNCHANGED repVars
    /\ UNCHANGED fsVars
    /\ UNCHANGED cfgVars

(* EmbeddingGenerator.__init__, lines 20-36 *)

\* lines 31-34: the fields are set from the arguments
CallInit ==
    /\ pc = "idle"
    /\ \E gemma \in BOOLEAN, arg \in DimArgs :
          /\ engine' = [is_gemma |-> gemma, has_asym |-> FALSE, embedding_dim |-> NoneDim]
          /\ init_arg' = arg
    /\ \E base \in ModelBases, asym \in BOOLEAN :
          hub_model' = [base |-> base, asym |-> asym]
    /\ op' = "init"
    /\ pc' = "init_validate"
    /\ UNCHANGED <<vizVars, error, failed_at, returned, texts, encode_calls,
                   embeddings, out_records, out_mean, ctor_calls, model_base>>
    /\ UNCHANGED rawVars
    /\ UNCHANGED pjVars
    /\ UNCHANGED anVars
    /\ UNCHANGED repVars
    /\ UNCHANGED fsVars
    /\ UNCHANGED cfgVars

\* line 35: _validate_embedding_dim, lines 61-72
ValidateEmbeddingDim ==
    /\ pc = "init_validate"
    /\ IF ArgAccepted(engine.is_gemma, init_arg)
       THEN /\ engine' = [engine EXCEPT !.embedding_dim = StoredDim(init_arg)]
            /\ pc' = "init_load"
            /\ UNCHANGED <<error, failed_at>>
       ELSE /\ RaiseEmbeddingError("validate")
            /\ UNCHANGED engine
    /\ UNCHANGED <<op, vizVars, returned, texts, encode_calls, embeddings,
                   out_records, out_mean, initVars>>
    /\ UNCHANGED rawVars
    /\ UNCHANGED pjVars
    /\ UNCHANGED anVars
    /\ UNCHANGED repVars
    /\ UNCHANGED fsVars
    /\ UNCHANGED cfgVars

\* line 36: _load_model, lines 38-59.  For an EmbeddingGemma model a missing
\* torch raises before SentenceTransformer is constructed; the construction
\* itself may raise; otherwise the model is loaded.
LoadModel ==
    /\ pc = "init_load"
    /\ \/ /\ engine.is_gemma
          /\ RaiseEmbeddingError("load")
          /\ UNCHANGED <<engine, ctor_calls, model_base, returned>>
       \/ /\ ctor_calls' = ctor_calls + 1
          /\ \/ /\ RaiseEmbeddingError("load")
                /\ UNCHANGED <<engine, model_base, returned>>
             \/ /\ model_base' = hub_model.base
                /\ engine' = [engine EXCEPT !.has_asym = hub_model.asym]
                /\ returned' = (op = "init")
                /\ pc' = IF op = "analyze" THEN "an_process" ELSE "done"
                /\ UNCHANGED <<error, failed_at>>
    /\ UNCHANGED <<op, vizVars, texts, encode_calls, embeddings, out_records,
                   out_mean, init_arg, hub_model>>
    /\ UNCHANGED rawVars
    /\ UNCHANGED pjVars
    /\ UNCHANGED anVars
    /\ UNCHANGED repVars
    /\ UNCHANGED fsVars
    /\ UNCHANGED cfgVars

(* EmbeddingGenerator.process_json_data, lines 95-139 *)

\* lines 108-113: the engine is a constructed one, so self.model is loaded
CallProcessJsonData ==
    /\ pc = "idle"
    /\ \E inp \in ProcessInputs :
          /\ engine' = inp[1][1]
          /\ model_base' = inp[1][2]
          /\ json_data' = inp[2][1]
          /\ symbol_mapping' = IF inp[2][2] = "cli" THEN CliSymbolMapping ELSE NoMapping
          /\ size_mapping' = IF inp[2][2] = "cli" THEN CliSizeMapping ELSE NoMapping
    /\ src_idx' = 1
    /\ elem_idx' = 1
    /\ op' = "process"
    /\ pc' = "pj_loop"
    /\ UNCHANGED <<vizVars, error, failed_at, returned, texts, encode_calls,
                   embeddings, out_records, out_mean, init_arg, ctor_calls,
                   hub_model, rawVars, element_embeddings, doc_records, doc_means,
                   skipped>>
    /\ UNCHANGED anVars
    /\ UNCHANGED repVars
    /\ UNCHANGED fsVars
    /\ UNCHANGED cfgVars

\* lines 118-133: one element; an exception of the model is caught, logged
\* and the element skipped
EmbedElement ==
    /\ pc = "pj_loop"
    /\ src_idx <= Len(json_data)
    /\ elem_idx <= Len(json_data[src_idx].elements)
    /\ LET url_key == json_data[src_idx].key
           element == json_data[src_idx].elements[elem_idx]
           embedding == TruncateEmbedding(ModelEncode(model_base, element.value),
                                          engine.embedding_dim)
       IN  /\ encode_calls' = Append(encode_calls,
                                     [method |-> DocumentEncoder(engine),
                                      args |-> <<element.value>>])
           /\ \/ /\ skipped' = Append(skipped, <<src_idx, elem_idx>>)
                 /\ UNCHANGED <<doc_records, element_embeddings>>
              \/ /\ doc_records' = Append(doc_records,
                                          DocRecord(embedding, url_key, element,
                                                    symbol_mapping, size_mapping))
                 /\ element_embeddings' = Append(element_embeddings, embedding)
                 /\ UNCHANGED skipped
    /\ elem_idx' = elem_idx + 1
    /\ UNCHANGED <<pc, op, vizVars, error, failed_at, returned, engine, texts,
                   embeddings, out_records, out_mean, initVars, rawVars,
                   json_data, symbol_mapping, size_mapping, src_idx, doc_means>>
    /\ UNCHANGED anVars
    /\ UNCHANGED repVars
    /\ UNCHANGED fsVars
    /\ UNCHANGED cfgVars

\* lines 135-136: the source's elements are exhausted
CloseSource ==
    /\ pc = "pj_loop"
    /\ src_idx <= Len(json_data)
    /\ elem_idx > Len(json_data[src_idx].elements)
    /\ doc_means' = MeansAfterSource(doc_means, json_data[src_idx].key,
                                     element_embeddings)
    /\ element_embeddings' = <<>>
    /\ src_idx' = src_idx + 1
    /\ elem_idx' = 1
    /\ UNCHANGED <<pc, op, vizVars, error, failed_at, returned, engVars, initVars,
                   rawVars, json_data, symbol_mapping, size_mapping, doc_records,
                   skipped>>
    /\ UNCHANGED anVars
    /\ UNCHANGED repVars
    /\ UNCHANGED fsVars
    /\ UNCHANGED cfgVars

\* lines 138-139
ReturnProcessJsonData ==
    /\ pc = "pj_loop"
    /\ src_idx > Len(json_data)
    /\ pc' = IF op = "analyze" THEN "an_relabel" ELSE "done"
    /\ returned' = (op = "process")
    /\ UNCHANGED <<op, vizVars, error, failed_at, engVars, initVars, rawVars, pjVars>>
    /\ UNCHANGED anVars
    /\ UNCHANGED repVars
    /\ UNCHANGED fsVars
    /\ UNCHANGED cfgVars

(* analyze_urls, cli.py lines 55-177; an exception of a step propagates *)

RaiseFrom(kind, step) ==
    /\ pc' = "error"
    /\ error' = kind
    /\ failed_at' = step

\* lines 73-76: the call with its configuration loaded
CallAnalyzeUrls ==
    /\ pc = "idle"
    /\ \E inp \in AnalyzeInputs :
          /\ call_args' = inp
          /\ output_files' \in IF inp = CoreCall THEN OutputDirs ELSE {{}}
    /\ op' = "analyze"
    /\ pc' = "an_resolve"
    /\ UNCHANGED <<vizVars, error, failed_at, returned, engVars, initVars, rawVars,
                   pjVars, requested_embedding_dim, resolved_model,
                   resolved_embedding_dim, dim_warning, viz_args>>
    /\ UNCHANGED repVars
    /\ UNCHANGED <<fs_target, versioned_path, overwritten>>
    /\ UNCHANGED cfgVars

\* lines 79-92: model and dimension are resolved; an unsupported dimension
\* is logged and replaced
ResolveSettings ==
    /\ pc = "an_resolve"
    /\ LET requested == ResolveEmbeddingDim(call_args.embedding_dim,
                                            call_args.config_embedding_dim)
       IN  /\ requested_embedding_dim' = requested
           /\ resolved_embedding_dim' = CoerceEmbeddingDim(requested)
           /\ dim_warning' = Unsupported(requested)
    /\ resolved_model' = ResolveModelName(FirstName(call_args.model,
                                                    call_args.config_model))
    /\ pc' = "an_scrape"
    /\ UNCHANGED <<op, vizVars, error, failed_at, returned, engVars, initVars,
                   rawVars, pjVars, call_args, viz_args>>
    /\ UNCHANGED repVars
    /\ UNCHANGED fsVars
    /\ UNCHANGED cfgVars

\* scraper.py lines 62-76: the page of a role is saved under its next version
ScrapedFile(files, role, url) ==
    VersionedName(ScrapedBase(role, url), ExtHtml,
                  GetNextVersion(files, ScrapedBase(role, url), ExtHtml))

\* lines 100-104: scrape_multiple_urls scrapes the client and then the
\* competitor, saves each page when it is fetched, and re-raises the
\* scraper's exception
ScrapeUrls ==
    /\ pc = "an_scrape"
    /\ LET client_file == ScrapedFile(output_files, "client", call_args.client_url)
           with_client == output_files \cup {client_file}
           competitor_file == ScrapedFile(with_client, "competitor",
                                          call_args.competitor_url)
       IN  \/ /\ \E kind \in {"NetworkError", "ScrapingError"} :
                    RaiseFrom(kind, "scrape")
              /\ output_files' \in {output_files, with_client}
           \/ /\ output_files' = with_client \cup {competitor_file}
              /\ pc' = "an_extract"
              /\ UNCHANGED <<error, failed_at>>
    /\ UNCHANGED <<op, vizVars, returned, engVars, initVars, rawVars, pjVars, anVars>>
    /\ UNCHANGED repVars
    /\ UNCHANGED <<fs_target, versioned_path, overwritten>>
    /\ UNCHANGED cfgVars

\* extractor.py, save_extracted_data: the data go to the next version of
\* extracted_html_data-v*.json
DataFile(files) ==
    VersionedName(DataBase, ExtJson, GetNextVersion(files, DataBase, ExtJson))

\* lines 108-112: extract_multiple_files re-raises FileError; the extracted
\* data are saved
ExtractContent ==
    /\ pc = "an_extract"
    /\ \/ /\ RaiseFrom("FileError", "extract")
          /\ UNCHANGED <<json_data, output_files>>
       \/ /\ json_data' = call_args.site
          /\ output_files' = output_files \cup {DataFile(output_files)}
          /\ pc' = "an_engine"
          /\ UNCHANGED <<error, failed_at>>
    /\ UNCHANGED <<op, vizVars, returned, engVars, initVars, rawVars, anVars,
                   symbol_mapping, size_mapping, src_idx, elem_idx,
                   element_embeddings, doc_records, doc_means, skipped>>
    /\ UNCHANGED repVars
    /\ UNCHANGED <<fs_target, versioned_path, overwritten>>
    /\ UNCHANGED cfgVars

\* line 116: EmbeddingGenerator(model_name=resolved_model,
\* embedding_dim=resolved_embedding_dim) enters __init__
ConstructEngine ==
    /\ pc = "an_engine"
    /\ engine' = [is_gemma |-> IsGemmaName(resolved_model), has_asym |-> FALSE,
                  embedding_dim |-> NoneDim]
    /\ init_arg' = resolved_embedding_dim
    /\ hub_model' = call_args.hub
    /\ pc' = "init_validate"
    /\ UNCHANGED <<op, vizVars, error, failed_at, returned, texts, encode_calls,
                   embeddings, out_records, out_mean, ctor_calls, model_base,
                   rawVars, pjVars, anVars>>
    /\ UNCHANGED repVars
    /\ UNCHANGED fsVars
    /\ UNCHANGED cfgVars

\* lines 119-138: the mappings, and process_json_data is entered
AnalyzeProcessJsonData ==
    /\ pc = "an_process"
    /\ symbol_mapping' = CliSymbolMapping
    /\ size_mapping' = CliSizeMapping
    /\ src_idx' = 1
    /\ elem_idx' = 1
    /\ pc' = "pj_loop"
    /\ UNCHANGED <<op, vizVars, error, failed_at, returned, engVars, initVars,
                   rawVars, anVars, json_data, element_embeddings, doc_records,
                   doc_means, skipped>>
    /\ UNCHANGED repVars
    /\ UNCHANGED fsVars
    /\ UNCHANGED cfgVars

\* lines 141-161: labels and mean keys become domain names; then
\* generate_query_embeddings is entered
RelabelDomains ==
    /\ pc = "an_relabel"
    /\ LET role_to_domain == RoleToDomain(call_args.client_url,
                                          call_args.competitor_url)
       IN  /\ doc_records' = RelabelRecords(doc_records, role_to_domain)
           /\ doc_means' = RelabelMeans(doc_means, KeyOrder(json_data),
                                        role_to_domain)
    /\ texts' = call_args.queries
    /\ pc' = "query_encode"
    /\ UNCHANGED <<op, vizVars, error, failed_at, returned, engine, encode_calls,
                   embeddings, out_records, out_mean, initVars, rawVars, anVars,
                   json_data, symbol_mapping, size_mapping, src_idx, elem_idx,
                   element_embeddings, skipped>>
    /\ UNCHANGED repVars
    /\ UNCHANGED fsVars
    /\ UNCHANGED cfgVars

\* the inputs with which create_3d_visualization cannot return: PCA is the
\* only estimator and raises, the mean of no query is NaN and
\* cosine_similarity rejects it, or there is no similarity score to chart
VisualizationFails(recs, means, qmean) ==
    \/ /\ UsesPCADirectly(Len(recs))
       /\ PCARaises(Len(recs),
                    IF recs = <<>> THEN 0 ELSE Len(recs[1].embedding.num),
                    PCAComponents(Len(recs)))
    \/ IsNaN(qmean) /\ DOMAIN means # {}
    \/ FigureRaises(means)

\* lines 165-177: create_3d_visualization is called with the records of both
\* kinds; it writes the report and returns its path, or raises
\* VisualizationError, before the report is written or, from the print of
\* the scores, after it (the operation "viz" is that call, step by step)
AnalyzeVisualize ==
    /\ pc = "an_viz"
    /\ viz_args' = [embeddings_data |-> doc_records \o out_records,
                    mean_embeddings |-> doc_means,
                    queries_mean |-> out_mean,
                    model_name |-> resolved_model,
                    embedding_dim |-> resolved_embedding_dim]
    /\ \/ /\ RaiseFrom("VisualizationError", "visualize")
          /\ UNCHANGED returned
          /\ UNCHANGED report_written
          /\ UNCHANGED return_value
          /\ UNCHANGED output_files
       \/ /\ ~VisualizationFails(doc_records \o out_records, doc_means, out_mean)
          /\ TRUE \in PrintOutcomes
          /\ RaiseFrom("VisualizationError", "print")
          /\ report_written' = TRUE
          /\ output_files' = output_files \cup {ReportPath(output_files).path}
          /\ UNCHANGED returned
          /\ UNCHANGED return_value
       \/ /\ ~VisualizationFails(doc_records \o out_records, doc_means, out_mean)
          /\ returned' = TRUE
          /\ report_written' = TRUE
          /\ return_value' = ReportPath(output_files)
          /\ output_files' = output_files \cup {ReportPath(output_files).path}
          /\ pc' = "done"
          /\ UNCHANGED <<error, failed_at>>
    /\ UNCHANGED <<op, embeddings_data, mean_embeddings, queries_mean, n_features,
                   reduced_embeddings, reduction_method, perplexity, tsne_called,
                   tsne_raised, logged_method, tsne_means, cosine_similarities,
                   report_method, engVars, initVars, rawVars, pjVars, call_args,
                   requested_embedding_dim, resolved_model, resolved_embedding_dim,
                   dim_warning>>
    /\ UNCHANGED first_run
    /\ UNCHANGED <<fs_target, versioned_path, overwritten>>
    /\ UNCHANGED cfgVars

(* VersionManager, utils/versioning.py: requests on one output directory *)

otherVars == <<vizVars, error, failed_at, returned, engVars, initVars, rawVars,
               pjVars, anVars, repVars, cfgVars>>

\* __init__, lines 12-19
OpenOutputDir ==
    /\ pc = "idle"
    /\ op' = "files"
    /\ pc' = "fs_idle"
    /\ UNCHANGED <<otherVars, fsVars>>

\* get_versioned_path, lines 54-65
GetVersionedPath ==
    /\ pc = "fs_idle"
    /\ \E t \in Targets :
          /\ GetNextVersion(output_files, t.base, t.ext) <= MaxVersion
          /\ fs_target' = t
          /\ versioned_path' =
                VersionedName(t.base, t.ext,
                              GetNextVersion(output_files, t.base, t.ext))
    /\ pc' = "fs_write"
    /\ UNCHANGED <<op, otherVars, output_files, overwritten>>

\* `with open(path, 'w')`: scraper.py lines 74-76, extractor.py lines 131-132,
\* plotly_3d.py lines 381-382
WriteVersionedFile ==
    /\ pc = "fs_write"
    /\ overwritten' = (overwritten \/ versioned_path \in output_files)
    /\ output_files' = output_files \cup {versioned_path}
    /\ pc' = "fs_idle"
    /\ UNCHANGED <<op, otherVars, fs_target, versioned_path>>

\* cleanup_old_versions, lines 67-88
CleanupOldVersions ==
    /\ pc = "fs_idle"
    /\ \E t \in Targets, keep \in KeepChoices :
          \E K \in KeptSets(output_files, t.base, t.ext, keep) :
             output_files' =
                (output_files \ MatchingFiles(output_files, t.base, t.ext)) \cup K
    /\ UNCHANGED <<pc, op, otherVars, fs_target, versioned_path, overwritten>>

\* the run is over
CloseOutputDir ==
    /\ pc = "fs_idle"
    /\ pc' = "done"
    /\ returned' = TRUE
    /\ UNCHANGED <<op, vizVars, error, failed_at, engVars, initVars, rawVars,
                   pjVars, anVars, repVars, fsVars, cfgVars>>

----------------------------------------------------------------------------
(* Config.load_from_file, core/config.py lines 68-168 *)

nonCfgVars == <<vizVars, engVars, initVars, rawVars, pjVars, anVars, repVars, fsVars>>

InvalidSectionMessage(s) ==
    IF s = "scraping" THEN "Invalid scraping config"
    ELSE IF s = "embedding" THEN "Invalid embedding config"
    ELSE "Invalid visualization config"

\* lines 79-94: a missing file is created with the defaults, an existing one
\* is read
CallLoadFromFile ==
    /\ pc = "idle"
    /\ op' = "config"
    /\ \E file \in ConfigFiles, interactive \in BOOLEAN :
          /\ cfg_file' = file
          /\ cfg_interactive' = interactive
          /\ config' = DefaultConfig
          /\ IF file = NoEntry
             THEN /\ cfg_saved' = TRUE
                  /\ returned' = TRUE
                  /\ pc' = "done"
                  /\ UNCHANGED <<cfg_data, cfg_idx>>
             ELSE /\ cfg_data' = LoadedData(file)
                  /\ cfg_idx' = 1
                  /\ pc' = "cfg_section"
                  /\ UNCHANGED <<cfg_saved, returned>>
    /\ UNCHANGED <<error, failed_at, cfg_pending, cfg_message, response, nonCfgVars>>

\* the position after the section cfg_idx
AfterSection ==
    IF cfg_idx < Len(SectionNames)
    THEN cfg_idx' = cfg_idx + 1 /\ pc' = "cfg_section"
    ELSE cfg_idx' = cfg_idx /\ pc' = "cfg_top"

\* lines 97-140: one nested section
LoadSection ==
    /\ pc = "cfg_section"
    /\ LET s == SectionNames[cfg_idx]
       IN  IF ~IsSection(cfg_data, s)
           THEN /\ AfterSection
                /\ UNCHANGED <<config, cfg_pending, cfg_message, error, failed_at>>
           ELSE LET r == BuildSection(s, cfg_data[s].m)
                IN  /\ config' = IF r.raised = "TypeError" THEN config
                                  ELSE [config EXCEPT ![s] = r.obj]
                    /\ IF r.raised = "none"
                       THEN /\ AfterSection
                            /\ UNCHANGED <<cfg_pending, cfg_message, error, failed_at>>
                       ELSE /\ cfg_message' = <<InvalidSectionMessage(s)>>
                            /\ IF cfg_interactive
                               THEN /\ cfg_pending' = s
                                    /\ pc' = "cfg_prompt"
                                    /\ UNCHANGED <<cfg_idx, error, failed_at>>
                               ELSE /\ RaiseFrom("ValueError", "config")
                                    /\ UNCHANGED <<cfg_idx, cfg_pending>>
    /\ UNCHANGED <<op, returned, cfg_file, cfg_interactive, cfg_data, response,
                   cfg_saved, nonCfgVars>>

\* lines 106-110, 120-124, 134-138, 162-164: the answer to a prompt
AnswerPrompt ==
    /\ pc = "cfg_prompt"
    /\ \E r \in Responses :
          /\ response' = r
          /\ IF Declined(r)
             THEN /\ RaiseFrom("ValueError", "config")
                  /\ cfg_message' = <<"Config loading cancelled">> \o cfg_message
                  /\ UNCHANGED <<config, cfg_idx, cfg_pending, returned>>
             ELSE /\ cfg_pending' = "none"
                  /\ cfg_message' = <<>>
                  /\ UNCHANGED <<error, failed_at>>
                  /\ IF cfg_pending = "validate"
                     THEN /\ returned' = TRUE
                          /\ pc' = "done"
                          /\ UNCHANGED <<config, cfg_idx>>
                     ELSE /\ config' = [config EXCEPT
                                           ![cfg_pending] = SectionDefaults(cfg_pending)]
                          /\ AfterSection
                          /\ UNCHANGED returned
    /\ UNCHANGED <<op, cfg_file, cfg_interactive, cfg_data, cfg_saved, nonCfgVars>>

\* lines 143-154: the top-level fields (setattr on the dataclass never raises)
UpdateTopLevel ==
    /\ pc = "cfg_top"
    /\ config' = UpdateTopLevelFields(config, cfg_data)
    /\ pc' = "cfg_validate"
    /\ UNCHANGED <<op, error, failed_at, returned, cfg_file, cfg_interactive, cfg_data,
                   cfg_idx, cfg_pending, cfg_message, response, cfg_saved, nonCfgVars>>

\* variant: a failed final validation is ignored when not interactive
ValidateConfig_Mut ==
    /\ pc = "cfg_validate"
    /\ IF Validate(config) = NoMessage \/ ~cfg_interactive
       THEN /\ returned' = TRUE
            /\ pc' = "done"
            /\ UNCHANGED <<cfg_pending, cfg_message, error, failed_at>>
       ELSE /\ cfg_message' = <<"Configuration validation failed", Validate(config)>>
            /\ cfg_pending' = "validate"
            /\ pc' = "cfg_prompt"
            /\ UNCHANGED <<error, failed_at, returned>>
    /\ UNCHANGED <<op, cfg_file, cfg_interactive, cfg_data, config, cfg_idx, response,
                   cfg_saved, nonCfgVars>>

\* lines 157-168: the final validation and the return
ValidateConfig ==
    /\ pc = "cfg_validate"
    /\ IF Validate(config) = NoMessage
       THEN /\ returned' = TRUE
            /\ pc' = "done"
            /\ UNCHANGED <<cfg_pending, cfg_message, error, failed_at>>
       ELSE /\ cfg_message' = <<"Configuration validation failed", Validate(config)>>
            /\ IF cfg_interactive
               THEN /\ cfg_pending' = "validate"
                    /\ pc' = "cfg_prompt"
                    /\ UNCHANGED <<error, failed_at, returned>>
               ELSE /\ RaiseFrom("ValueError", "config")
                    /\ UNCHANGED <<cfg_pending, returned>>
    /\ UNCHANGED <<op, cfg_file, cfg_interactive, cfg_data, config, cfg_idx, response,
                   cfg_saved, nonCfgVars>>

\* the call is over; the next one starts from a fresh state
Finish ==
    /\ pc \in {"done", "error"}
    /\ pc' = "idle"
    /\ op' = "none"
    /\ embeddings_data' = <<>>
    /\ mean_embeddings' = <<>>
    /\ queries_mean' = <<>>
    /\ n_features' = 0
    /\ reduced_embeddings' = <<>>
    /\ reduction_method' = "none"
    /\ perplexity' = 0
    /\ tsne_called' = FALSE
    /\ tsne_raised' = FALSE
    /\ logged_method' = "none"
    /\ tsne_means' = <<>>
    /\ cosine_similarities' = <<>>
    /\ report_method' = "none"
    /\ report_written' = FALSE
    /\ error' = "none"
    /\ failed_at' = "none"
    /\ returned' = FALSE
    /\ engine' = NoEngine
    /\ texts' = <<>>
    /\ encode_calls' = <<>>
    /\ embeddings' = <<>>
    /\ out_records' = <<>>
    /\ out_mean' = NoMean
    /\ init_arg' = NoneArg
    /\ ctor_calls' = 0
    /\ model_base' = NoModel
    /\ raw_embeddings' = <<>>
    /\ json_data' = <<>>
    /\ symbol_mapping' = NoMapping
    /\ size_mapping' = NoMapping
    /\ src_idx' = 0
    /\ elem_idx' = 0
    /\ element_embeddings' = <<>>
    /\ doc_records' = <<>>
    /\ doc_means' = <<>>
    /\ skipped' = <<>>
    /\ hub_model' = CoreCall.hub
    /\ call_args' = NoCall
    /\ requested_embedding_dim' = NoneArg
    /\ resolved_model' = NoName
    /\ resolved_embedding_dim' = NoneArg
    /\ dim_warning' = FALSE
    /\ viz_args' = NoVizArgs
    /\ first_run' = NoRun
    /\ return_value' = NoValue
    /\ output_files' = {}
    /\ fs_target' = NoTarget
    /\ versioned_path' = NoPath
    /\ overwritten' = FALSE
    /\ cfg_file' = NoEntry
    /\ cfg_interactive' = FALSE
    /\ cfg_data' = EmptyMap
    /\ config' = NoConfig
    /\ cfg_idx' = 0
    /\ cfg_pending' = "none"
    /\ cfg_message' = <<>>
    /\ response' = NoResponse
    /\ cfg_saved' = FALSE

Next ==
    \/ CallVisualization
    \/ ReducePCA
    \/ ReduceTSNE
    \/ ReduceFallback
    \/ AttachCoordinates
    \/ ComputeTsneMeans
    \/ ComputeCosineSimilarities
    \/ BuildFigure
    \/ WriteReport
    \/ RepeatVisualization
    \/ CallSimpleVisualization
    \/ CreateSimpleVisualization
    \/ CallGenerateEmbeddings
    \/ GenerateEmbeddings
    \/ CallGenerateQueryEmbeddings
    \/ EncodeQueries
    \/ BuildQueryRecords
    \/ CallInit
    \/ ValidateEmbeddingDim
    \/ LoadModel
    \/ CallProcessJsonData
    \/ EmbedElement
    \/ CloseSource
    \/ ReturnProcessJsonData
    \/ CallAnalyzeUrls
    \/ ResolveSettings
    \/ ScrapeUrls
    \/ ExtractContent
    \/ ConstructEngine
    \/ AnalyzeProcessJsonData
    \/ RelabelDomains
    \/ AnalyzeVisualize
    \/ OpenOutputDir
    \/ GetVersionedPath
    \/ WriteVersionedFile
    \/ CleanupOldVersions
    \/ CloseOutputDir
    \/ CallLoadFromFile
    \/ LoadSection
    \/ AnswerPrompt
    \/ UpdateTopLevel
    \/ ValidateConfig
    \/ Finish

Spec == Init /\ [][Next]_vars

----------------------------------------------------------------------------
(* Properties of the reducer and the scorer *)

ReductionCompleted == op = "viz" /\ reduction_method # "none"

CoordinatesAttached ==
    /\ op = "viz"
    /\ \/ pc \in {"means", "score", "figure", "write", "done"}
       \/ pc = "error" /\ failed_at \in {"score", "figure", "print"}

ScoreStepPassed ==
    /\ op = "viz"
    /\ \/ pc \in {"figure", "write", "done"}
       \/ pc = "error" /\ failed_at \in {"figure", "print"}

\* C1: with n >= 1 vectors, n < 4 means PCA is the method used and reported
\* (log line and plot title) and t-SNE is never tried; n >= 4 with a t-SNE
\* that does not raise means t-SNE is the method used and reported.
C1_MethodBySampleCount ==
    /\ (op = "viz" /\ n_samples < MIN_SAMPLES_FOR_TSNE) => ~tsne_called
    /\ ReductionCompleted =>
          /\ n_samples >= 1
          /\ logged_method = reduction_method
          /\ report_method \in {"none", reduction_method}
          /\ (pc \in {"write", "done"} => report_method = reduction_method)
          /\ (n_samples < MIN_SAMPLES_FOR_TSNE => reduction_method = "PCA")
          /\ (n_samples >= MIN_SAMPLES_FOR_TSNE /\ ~tsne_raised
                => tsne_called /\ reduction_method = "t-SNE")

C1_Witness ==
    /\ pc = "done" /\ op = "viz"
    /\ n_samples = MIN_SAMPLES_FOR_TSNE
    /\ ~tsne_raised
    /\ report_method = "t-SNE"

\* C2 (as claimed): for n >= 4, once t-SNE has raised, the PCA fallback has
\* produced n points of 3 coordinates, PCA is reported and nothing is raised
\* by the reduction step.
C2_FallbackNeverPropagates ==
    (op = "viz" /\ n_samples >= MIN_SAMPLES_FOR_TSNE /\ tsne_raised /\ pc # "fallback")
        => /\ reduction_method = "PCA"
           /\ logged_method = "PCA"
           /\ Len(reduced_embeddings) = n_samples
           /\ ~(pc = "error" /\ failed_at = "reduce")

\* C3 (as claimed): a call with no vectors fails with ValidationError.
C3_EmptyInputValidationError ==
    (op = "viz" /\ n_samples = 0 /\ pc # "reduce") => error = "ValidationError"

\* C4 (as claimed): the perplexity given to t-SNE is max(5, min(30, n-1)) and
\* is strictly less than n.
C4_PerplexityBelowSampleCount ==
    tsne_called
        => /\ perplexity = Max(5, Min(30, n_samples - 1))
           /\ perplexity < n_samples

\* C5: once the coordinates are attached there are exactly n reduced points
\* and record i carries, as x, y, z, the three coordinates computed for input
\* row i, whatever the method.
C5_OnePointPerRecordInOrder ==
    /\ (op = "viz" /\ pc = "attach") => Len(reduced_embeddings) = n_samples
    /\ CoordinatesAttached =>
          /\ n_samples >= 1
          /\ Len(reduced_embeddings) = n_samples
          /\ \A i \in 1..n_samples :
                /\ Len(reduced_embeddings[i]) = TARGET_COMPONENTS
                /\ embeddings_data[i].x = reduced_embeddings[i][1]
                /\ embeddings_data[i].y = reduced_embeddings[i][2]
                /\ embeddings_data[i].z = reduced_embeddings[i][3]
                /\ embeddings_data[i].x.row = i /\ embeddings_data[i].x.comp = 1
                /\ embeddings_data[i].y.row = i /\ embeddings_data[i].y.comp = 2
                /\ embeddings_data[i].z.row = i /\ embeddings_data[i].z.comp = 3

C5_Witness ==
    /\ pc = "done" /\ op = "viz"
    /\ n_samples > MIN_SAMPLES_FOR_TSNE
    /\ tsne_raised
    /\ embeddings_data[n_samples].z.row = n_samples

\* C6: when PCA is the method, every point has 3 coordinates of which the
\* first min(3, n) are principal components and the rest are zero padding:
\* y and z are 0 for n = 1, z is 0 for n = 2, nothing is padded for n >= 3.
C6_LinearPadsToThree ==
    (op = "viz" /\ reduction_method = "PCA") =>
        \A i \in 1..n_samples :
            /\ Len(reduced_embeddings[i]) = 3
            /\ \A j \in 1..3 :
                  reduced_embeddings[i][j].by =
                      (IF j <= Min(3, n_samples) THEN "PCA" ELSE "pad")
            /\ (n_samples = 1 => /\ reduced_embeddings[i][2].by = "pad"
                                 /\ reduced_embeddings[i][3].by = "pad")
            /\ (n_samples = 2 => /\ reduced_embeddings[i][2].by = "PCA"
                                 /\ reduced_embeddings[i][3].by = "pad")
            /\ (n_samples >= 3 => \A j \in 1..3 : reduced_embeddings[i][j].by # "pad")

C6_Witness ==
    /\ op = "viz" /\ pc = "done" /\ reduction_method = "PCA"
    /\ n_samples = 2
    /\ embeddings_data[1].y.by = "PCA"
    /\ embeddings_data[1].z.by = "pad"

ZeroNormScored ==
    \E k \in DOMAIN mean_embeddings :
        SumSq(mean_embeddings[k]) = 0 \/ SumSq(queries_mean) = 0

\* C7 (as claimed): scoring a zero-norm group mean or reference raises
\* ValidationError; no number is returned for it.
C7_ZeroNormRejected ==
    (ScoreStepPassed /\ ZeroNormScored)
        => /\ error = "ValidationError"
           /\ cosine_similarities = <<>>

DimensionMismatch ==
    \E k \in DOMAIN mean_embeddings : Len(mean_embeddings[k]) # Len(queries_mean)

\* C8 (as claimed): scoring a group mean whose dimension differs from the
\* reference's raises ValidationError.
C8_MismatchValidationError ==
    (op = "viz" /\ DimensionMismatch
       /\ (ScoreStepPassed \/ (pc = "error" /\ failed_at = "score")))
        => error = "ValidationError"

\* C9 (as claimed): generate_query_embeddings on an empty query list raises
\* EmbeddingError; it returns neither records nor a (NaN) mean.
C9_EmptyQueriesRejected ==
    (op = "query" /\ texts = <<>> /\ pc \in {"done", "error"})
        => /\ error = "EmbeddingError"
           /\ ~returned
           /\ ~IsNaN(out_mean)

\* C10 (as claimed): generate_embeddings on an empty list returns an empty
\* sequence and makes no call to the model's encode.
C10_EmptyTextsSkipModel ==
    (op = "gen" /\ texts = <<>> /\ pc = "done")
        => /\ returned
           /\ embeddings = <<>>
           /\ encode_calls = <<>>

----------------------------------------------------------------------------
(* Properties of the engine's construction *)

\* the argument is invalid in the claim's sense: not None and not a positive
\* integer, or an EmbeddingGemma model with a value outside {128, 256, 512, 768}
InvalidTargetDim(gemma, arg) ==
    /\ arg.kind # "none"
    /\ \/ arg.kind # "int"
       \/ arg.val <= 0
       \/ gemma /\ arg.val \notin {128, 256, 512, 768}

\* C11: validation precedes the model load: with an invalid embedding_dim the
\* construction fails in the validation step and SentenceTransformer has
\* never been constructed; whenever it has been constructed the argument was
\* valid.
C11_ValidationBeforeLoad ==
    op = "init" =>
        /\ (pc = "init_validate" => ctor_calls = 0)
        /\ (ctor_calls > 0 => ~InvalidTargetDim(engine.is_gemma, init_arg))
        /\ (InvalidTargetDim(engine.is_gemma, init_arg) /\ pc # "init_validate"
              => /\ pc = "error"
                 /\ failed_at = "validate"
                 /\ ctor_calls = 0
                 /\ model_base = NoModel
                 /\ ~returned)

C11_Witness ==
    /\ op = "init" /\ pc = "error" /\ failed_at = "validate"
    /\ engine.is_gemma
    /\ init_arg = [kind |-> "int", val |-> 2]
    /\ ctor_calls = 0

GemmaUnsupportedDim ==
    /\ op = "init" /\ engine.is_gemma
    /\ init_arg.kind = "int" /\ init_arg.val > 0
    /\ init_arg.val \notin {128, 256, 512, 768}

\* C12 (as claimed): an EmbeddingGemma engine with a dimension outside
\* {128, 256, 512, 768}, e.g. 300, raises ConfigurationError.
C12_UnsupportedDimConfigurationError ==
    (GemmaUnsupportedDim /\ pc # "init_validate")
        => pc = "error" /\ error = "ConfigurationError"

----------------------------------------------------------------------------
(* Properties of the truncation *)

\* the engine has encoded a batch and truncated the result
Truncated == op \in {"gen", "query"} /\ pc \in {"done", "query_mean"}

\* C18: truncate(v, d) is v itself when d is None or d >= len(v); when
\* d < len(v) the result has d components, the first d components of v
\* divided by their L2 norm, so of unit norm when that prefix is non-zero.
C18_TruncateThenRenormalise ==
    Truncated =>
        /\ Len(embeddings) = Len(raw_embeddings)
        /\ \A i \in 1..Len(embeddings) :
              LET v == raw_embeddings[i]
                  t == embeddings[i]
                  d == engine.embedding_dim
              IN  IF d = NoneDim \/ d >= Len(v.num)
                  THEN t = v
                  ELSE /\ Len(t.num) = d
                       /\ t.num = SubSeq(v.num, 1, d)
                       /\ (SumSq(t.num) > 0 =>
                              /\ t.den2 = SumSq(SubSeq(v.num, 1, d))
                              /\ SumSq(t.num) = t.den2)

C18_Witness ==
    /\ Truncated /\ Len(embeddings) = 2
    /\ engine.embedding_dim = 1
    /\ raw_embeddings[1].num = <<1, 1>>
    /\ embeddings[1] = [num |-> <<1>>, den2 |-> 1]
    /\ Len(raw_embeddings[2].num) = 2

\* the prefix that truncation keeps is all zeros
ZeroPrefix(v, d) ==
    /\ d # NoneDim /\ d < Len(v.num)
    /\ SumSq(SubSeq(v.num, 1, d)) = 0

\* C19: truncation never divides by zero: a zero prefix is returned as it is,
\* not normalised, and the call does not fail.
C19_ZeroPrefixUnnormalised ==
    Truncated =>
        \A i \in 1..Len(embeddings) :
            /\ embeddings[i].den2 > 0
            /\ ZeroPrefix(raw_embeddings[i], engine.embedding_dim) =>
                  /\ embeddings[i].num =
                        SubSeq(raw_embeddings[i].num, 1, engine.embedding_dim)
                  /\ embeddings[i].den2 = raw_embeddings[i].den2

C19_Witness ==
    /\ op = "gen" /\ pc = "done" /\ returned
    /\ Len(embeddings) >= 1
    /\ raw_embeddings[1].num = <<0, 1>>
    /\ engine.embedding_dim = 1
    /\ embeddings[1] = [num |-> <<0>>, den2 |-> 1]

----------------------------------------------------------------------------
(* Properties of process_json_data *)

\* process_json_data has returned
ProcessReturned == op = "process" /\ pc = "done"

RECURSIVE RecordsOf(_, _)
RecordsOf(recs, key) ==
    IF recs = <<>> THEN <<>>
    ELSE (IF Head(recs).label = key THEN <<Head(recs)>> ELSE <<>>)
         \o RecordsOf(Tail(recs), key)

\* the elements of source s whose embedding did not fail, in order
RECURSIVE Survivors(_, _)
Survivors(s, n) ==
    IF n = 0 THEN <<>>
    ELSE Survivors(s, n - 1) \o
         (IF \E j \in 1..Len(skipped) : skipped[j] = <<s, n>>
          THEN <<>> ELSE <<json_data[s].elements[n]>>)

\* C14: a failing item is skipped and every other item, of the same and of
\* later sources, is processed; a source none of whose items was embedded has
\* no key in the group means; the call does not raise.
C14_FailedItemsSkipped ==
    /\ (op = "process" => pc # "error")
    /\ ProcessReturned =>
          \A s \in 1..Len(json_data) :
             LET key == json_data[s].key
                 recs == RecordsOf(doc_records, key)
                 kept == Survivors(s, Len(json_data[s].elements))
             IN  /\ Len(recs) = Len(kept)
                 /\ \A i \in 1..Len(recs) : /\ recs[i].value = kept[i].value
                                            /\ recs[i].type = kept[i].type
                 /\ (key \in DOMAIN doc_means <=> kept # <<>>)

C14_Witness ==
    /\ ProcessReturned
    /\ json_data = CoreJson
    /\ skipped = << <<1, 1>>, <<2, 1>> >>
    /\ Len(doc_records) = 1
    /\ doc_records[1].value = "t2"
    /\ DOMAIN doc_means = {"client"}

RECURSIVE EmbeddingsOf(_)
EmbeddingsOf(recs) ==
    IF recs = <<>> THEN <<>> ELSE <<Head(recs).embedding>> \o EmbeddingsOf(Tail(recs))

\* every element of source s was embedded, and there is at least one
AllEmbedded(s) ==
    /\ Len(json_data[s].elements) >= 1
    /\ \A j \in 1..Len(skipped) : skipped[j][1] # s

\* C16: for a source whose k >= 1 items were all embedded, the source's mean
\* is the elementwise mean of exactly the k truncated vectors stored in that
\* source's records.
C16_MeanOverStoredVectors ==
    ProcessReturned =>
        \A s \in 1..Len(json_data) :
            AllEmbedded(s) =>
               LET key == json_data[s].key
                   vecs == EmbeddingsOf(RecordsOf(doc_records, key))
               IN  /\ key \in DOMAIN doc_means
                   /\ Len(vecs) = Len(json_data[s].elements)
                   /\ doc_means[key].terms = vecs
                   /\ doc_means[key].cnt = Len(vecs)

C16_Witness ==
    /\ ProcessReturned
    /\ json_data = CoreJson /\ AllEmbedded(1)
    /\ engine.embedding_dim = 1
    /\ model_base = <<1, 1, 0>>
    /\ doc_means["client"] =
          [terms |-> << [num |-> <<1>>, den2 |-> 1], [num |-> <<0>>, den2 |-> 1] >>,
           cnt |-> 2]

----------------------------------------------------------------------------
(* Properties of analyze_urls *)

\* C13 (as claimed): a resolved dimension that is not valid for the model is
\* never replaced: analyze_urls does not complete, and no engine is
\* constructed with a dimension other than the resolved one.
C13_InvalidDimNeverCoerced ==
    (/\ op = "analyze"
     /\ InvalidTargetDim(IsGemmaName(resolved_model), requested_embedding_dim))
        => /\ pc # "done"
           /\ (ctor_calls > 0 => init_arg = requested_embedding_dim)

\* process_json_data has returned its records and means
DocumentsProcessed ==
    \/ ProcessReturned
    \/ /\ op = "analyze"
       /\ \/ pc \in {"an_relabel", "query_encode", "query_mean", "an_viz", "done"}
          \/ pc = "error" /\ failed_at \in {"encode", "visualize", "print"}

\* the labels have been replaced by domain names
Relabelled ==
    /\ op = "analyze"
    /\ \/ pc \in {"query_encode", "query_mean", "an_viz", "done"}
       \/ pc = "error" /\ failed_at \in {"encode", "visualize", "print"}

\* C15: every label of a record returned by process_json_data is a key of
\* the returned group means, also after analyze_urls has replaced the role
\* names by domain names.
C15_RecordLabelsAreMeanKeys ==
    DocumentsProcessed =>
        \A i \in 1..Len(doc_records) : doc_records[i].label \in DOMAIN doc_means

C15_Witness ==
    /\ Relabelled /\ pc = "an_viz"
    /\ call_args.competitor_url = Url(TRUE, FALSE, "acme.com", FALSE)
    /\ Len(doc_records) = 3
    /\ \A i \in 1..3 : doc_records[i].label = "acme.com"
    /\ DOMAIN doc_means = {"acme.com"}

\* the sizes of all vectors the engine has produced in the running operation
MeanDims(m) == {Len(m.terms[j].num) : j \in 1..Len(m.terms)}
VectorDims ==
    {Len(embeddings[i].num) : i \in 1..Len(embeddings)}
    \cup {Len(doc_records[i].embedding.num) : i \in 1..Len(doc_records)}
    \cup {Len(out_records[i].embedding.num) : i \in 1..Len(out_records)}
    \cup UNION {MeanDims(doc_means[k]) : k \in DOMAIN doc_means}
    \cup MeanDims(out_mean)

\* C20: for a non-empty list of n texts generate_embeddings returns n
\* vectors, and all vectors one engine produces in one run (those of
\* generate_embeddings, the records and means of process_json_data, the
\* records and mean of generate_query_embeddings) have the same size.
C20_OneDimensionPerEngine ==
    /\ (op = "gen" /\ pc = "done" /\ texts # <<>>) => Len(embeddings) = Len(texts)
    /\ op \in {"gen", "query", "process", "analyze"} => Cardinality(VectorDims) <= 1

C20_Witness ==
    /\ op = "analyze" /\ pc = "an_viz"
    /\ engine.embedding_dim = 128
    /\ Len(model_base) = 768
    /\ Len(doc_records) = 3 /\ Len(out_records) = 2
    /\ DOMAIN doc_means = {"acme.com", "rival.com"}
    /\ VectorDims = {128}

----------------------------------------------------------------------------
(* Scores and reduced-space centroids *)

\* the reduced points of the records of label l, in record order
RECURSIVE ReducedPointsOf(_, _)
ReducedPointsOf(n, l) ==
    IF n = 0 THEN <<>>
    ELSE ReducedPointsOf(n - 1, l) \o
         (IF embeddings_data[n].label = l
          THEN << <<embeddings_data[n].x, embeddings_data[n].y, embeddings_data[n].z>> >>
          ELSE <<>>)

\* C17: the scores are computed from the full-space group means and the
\* queries mean only; the reduced-space centroids, one per distinct label,
\* are the means of that label's reduced points; neither is derived from
\* the other.
C17_ScoresAndCentroidsIndependent ==
    ScoreStepPassed =>
        /\ DOMAIN cosine_similarities = DOMAIN mean_embeddings
        /\ \A k \in DOMAIN mean_embeddings :
              cosine_similarities[k] =
                 [dot |-> Dot(mean_embeddings[k], queries_mean),
                  nx2 |-> IF SumSq(mean_embeddings[k]) = 0 THEN 1
                          ELSE SumSq(mean_embeddings[k]),
                  ny2 |-> IF SumSq(queries_mean) = 0 THEN 1 ELSE SumSq(queries_mean)]
        /\ DOMAIN tsne_means = {embeddings_data[i].label : i \in 1..n_samples}
        /\ \A l \in DOMAIN tsne_means :
              /\ tsne_means[l].pts = ReducedPointsOf(n_samples, l)
              /\ tsne_means[l].pts # <<>>

C17_Witness ==
    /\ ScoreStepPassed
    /\ DOMAIN tsne_means = {"client", "competitor", "Queries"}
    /\ DOMAIN cosine_similarities = {"client"}
    /\ Len(tsne_means["client"].pts) = 2
    /\ cosine_similarities["client"].dot = 1

----------------------------------------------------------------------------
(* Routing of the encoders *)

\* the loaded model is an EmbeddingGemma model with document/query encoders
Asymmetric == engine.is_gemma /\ engine.has_asym

\* analyze_urls has called the query encoder: its call is the last one
QueryBatchEncoded ==
    /\ op = "analyze"
    /\ \/ pc \in {"query_mean", "an_viz", "done"}
       \/ pc = "error" /\ failed_at \in {"encode", "visualize", "print"}

\* the calls made on the model for content items and for the query batch
DocumentCalls ==
    IF op = "process" THEN encode_calls
    ELSE IF QueryBatchEncoded THEN SubSeq(encode_calls, 1, Len(encode_calls) - 1)
    ELSE IF op = "analyze" THEN encode_calls
    ELSE <<>>
QueryCalls ==
    IF op = "query" THEN encode_calls
    ELSE IF QueryBatchEncoded THEN << encode_calls[Len(encode_calls)] >>
    ELSE <<>>

\* C21: with an EmbeddingGemma model that has document/query encoders every
\* item goes to the document encoder and the queries to the query encoder,
\* and the plain encoder is never called; with any other model both
\* operations call the plain encoder, as generate_embeddings does.
C21_RoutedByCapability ==
    /\ \A i \in 1..Len(DocumentCalls) :
          /\ DocumentCalls[i].method =
                IF Asymmetric THEN "encode_document" ELSE "encode"
          /\ Len(DocumentCalls[i].args) = 1
    /\ \A i \in 1..Len(QueryCalls) :
          /\ QueryCalls[i].method = IF Asymmetric THEN "encode_query" ELSE "encode"
          /\ QueryCalls[i].args = texts
    /\ (op \in {"process", "query", "analyze"} /\ Asymmetric) =>
          \A i \in 1..Len(encode_calls) : encode_calls[i].method # "encode"
    /\ op = "gen" => \A i \in 1..Len(encode_calls) :
                        encode_calls[i] = [method |-> "encode", args |-> texts]

C21_Witness ==
    /\ op = "analyze" /\ pc = "an_viz" /\ Asymmetric
    /\ Len(encode_calls) = 4
    /\ encode_calls[1].method = "encode_document"
    /\ encode_calls[3].method = "encode_document"
    /\ encode_calls[4] = [method |-> "encode_query", args |-> <<"t1", "t2">>]

----------------------------------------------------------------------------
(* Defaults for an unknown source *)

\* the elements of the sources 1..s whose embedding did not fail, in order
RECURSIVE SurvivorsUpTo(_)
SurvivorsUpTo(s) ==
    IF s = 0 THEN <<>>
    ELSE SurvivorsUpTo(s - 1) \o Survivors(s, Len(json_data[s].elements))

RECURSIVE ElementCount(_)
ElementCount(s) ==
    IF s = 0 THEN 0 ELSE ElementCount(s - 1) + Len(json_data[s].elements)

\* C22: an item whose source is absent from the symbol map gets "circle",
\* one whose source is absent from the size map gets 8, and it is embedded
\* like any other item: only a failure of the model skips an item, and the
\* call never fails.
C22_UnknownSourceDefaults ==
    /\ (op = "process" => pc # "error")
    /\ ProcessReturned =>
          LET kept == SurvivorsUpTo(Len(json_data))
          IN  /\ Len(doc_records) = Len(kept)
              /\ Len(doc_records) + Len(skipped) = ElementCount(Len(json_data))
              /\ \A i \in 1..Len(doc_records) :
                    /\ doc_records[i].value = kept[i].value
                    /\ doc_records[i].symbol =
                          IF kept[i].source \in DOMAIN symbol_mapping
                          THEN symbol_mapping[kept[i].source] ELSE "circle"
                    /\ doc_records[i].size =
                          IF kept[i].source \in DOMAIN size_mapping
                          THEN size_mapping[kept[i].source] ELSE 8

C22_Witness ==
    /\ ProcessReturned
    /\ json_data = JsonData(2, 1, "other")
    /\ symbol_mapping = CliSymbolMapping /\ size_mapping = CliSizeMapping
    /\ skipped = <<>>
    /\ Len(doc_records) = 3
    /\ doc_records[1].symbol = "circle" /\ doc_records[1].size = 8
    /\ doc_records[3].symbol = "square"

----------------------------------------------------------------------------
(* The report is the last step *)

\* C23: the report is written only after reduction, reduced-space centroids
\* and scores have completed; a failing step ends the call at once, with no
\* later step run, nothing returned and no report written.
C23_ReportOnlyAfterAllSteps ==
    /\ (op = "viz" /\ report_written) =>
          /\ pc = "done" \/ (pc = "error" /\ failed_at = "print")
          /\ reduction_method \in {"PCA", "t-SNE"}
          /\ Len(reduced_embeddings) = n_samples
          /\ DOMAIN tsne_means = LabelsOf(embeddings_data)
          /\ DOMAIN cosine_similarities = DOMAIN mean_embeddings
    /\ (op = "analyze" /\ report_written) =>
          /\ pc = "done" \/ (pc = "error" /\ failed_at = "print")
          /\ viz_args # NoVizArgs
          /\ viz_args.embeddings_data = doc_records \o out_records
          /\ viz_args.queries_mean = out_mean
    /\ pc = "error" => ~returned
    /\ (pc = "error" /\ failed_at # "print") => ~report_written
    /\ (op = "viz" /\ pc = "error" /\ failed_at \notin {"score", "figure", "print"}) =>
          tsne_means = <<>> /\ cosine_similarities = <<>>
    /\ (op = "viz" /\ pc = "error" /\ failed_at \notin {"figure", "print"}) =>
          report_method = "none"
    /\ (op = "analyze" /\ pc = "error" /\ failed_at \notin {"visualize", "print"}) =>
          viz_args = NoVizArgs

C23_Witness ==
    /\ op = "viz" /\ pc = "error" /\ failed_at = "score"
    /\ reduction_method = "t-SNE"
    /\ DOMAIN tsne_means = {"client", "competitor", "Queries"}
    /\ ~report_written

----------------------------------------------------------------------------
(* Determinism of the reduction *)

\* the second of two calls on the same input has reduced its vectors, as the
\* first did
BothReduced ==
    /\ op = "viz" /\ first_run # NoRun
    /\ first_run.method # "none" /\ reduction_method # "none"

----------------------------------------------------------------------------
(* Versioned paths *)

\* the versions of base and ext that exist in the directory
ExistingVersions(base, ext) ==
    {v \in 1..(MaxVersion + 1) : VersionedName(base, ext, v) \in output_files}
HighestExisting(base, ext) ==
    LET vs == ExistingVersions(base, ext)
    IN  IF vs = {} THEN 0 ELSE CHOOSE x \in vs : \A y \in vs : y <= x

\* C30 (as claimed): after any sequence of versioned writes and cleanups the
\* path returned by get_versioned_path does not exist yet and its version is
\* exactly one more than the highest existing version of that base name and
\* extension (1 when there is none); no write replaces an existing file.
C30_NextVersionAfterHighest ==
    /\ ~overwritten
    /\ pc = "fs_write" =>
          /\ versioned_path \notin output_files
          /\ versioned_path =
                VersionedName(fs_target.base, fs_target.ext,
                              HighestExisting(fs_target.base, fs_target.ext) + 1)

----------------------------------------------------------------------------
(* The value create_3d_visualization returns *)

\* C25 (as claimed): the value create_3d_visualization returns carries the
\* reduction method that produced the points, PCA after a fallback included.
C25_MethodInReturnValue ==
    (op = "viz" /\ pc = "done" /\ returned) =>
        /\ "method" \in DOMAIN return_value
        /\ return_value.method = reduction_method

----------------------------------------------------------------------------
(* Relabelling roles by domains *)

\* the source called key had at least one embedded element, hence a group
\* mean, when process_json_data returned
HadMean(key) ==
    \E s \in 1..Len(json_data) :
        /\ json_data[s].key = key
        /\ Survivors(s, Len(json_data[s].elements)) # <<>>

\* C28 (as claimed): when the client and the competitor source both have a
\* group mean, the relabelling by domain names leaves two distinct group
\* labels and two group means, and the scorer gets two means to score, for
\* every pair of URLs.
C28_RelabellingOneToOne ==
    (Relabelled /\ HadMean("client") /\ HadMean("competitor")) =>
        /\ Cardinality(DOMAIN doc_means) = 2
        /\ Cardinality({doc_records[i].label : i \in 1..Len(doc_records)}) = 2
        /\ pc = "done" =>
              Cardinality(DOMAIN CosineSimilarities(viz_args.mean_embeddings,
                                                    viz_args.queries_mean)) = 2

----------------------------------------------------------------------------
(* What create_3d_visualization changes in its arguments *)

\* C29: during a call of create_3d_visualization the records change in
\* their coordinate fields x, y, z only (embedding, label, type, value,
\* symbol, size, order and number of records stay as they are), and the
\* group means and the queries mean do not change at all.
C29_OnlyCoordinatesAdded ==
    [][(op = "viz" /\ op' = "viz") =>
          /\ StripCoords(embeddings_data') = StripCoords(embeddings_data)
          /\ mean_embeddings' = mean_embeddings
          /\ queries_mean' = queries_mean]_vars

\* coordinates were attached to records of two kinds, and the report is written
C29_Witness ==
    /\ op = "viz" /\ pc = "done" /\ returned
    /\ Len(embeddings_data) >= MIN_SAMPLES_FOR_TSNE
    /\ \E i, j \in 1..Len(embeddings_data) :
          /\ embeddings_data[i].symbol = "x"
          /\ embeddings_data[j].symbol = "circle"
          /\ embeddings_data[i].x # NoCoord
          /\ embeddings_data[j].x # NoCoord
    /\ mean_embeddings # <<>>

----------------------------------------------------------------------------
(* Properties of Config.load_from_file *)

\* load_from_file has returned the Config read from an existing file
LoadedFromFile == op = "config" /\ pc = "done" /\ returned /\ cfg_file # NoEntry

\* the mapping written in the file
FileMap == IF cfg_file.t = "dict" THEN cfg_file.m ELSE EmptyMap

\* the fields of Config that are not nested sections
TopFields == DOMAIN DefaultConfig \ {SectionNames[i] : i \in 1..Len(SectionNames)}

\* every nested section is an instance of its class, a field written in the
\* file has the file's value and any other field its default
FileValuesOverDefaults ==
    /\ \A i \in 1..Len(SectionNames) :
          LET s == SectionNames[i]
          IN  /\ config[s].cls = SectionClass(s)
              /\ \A k \in DOMAIN FieldDefaults(s) :
                    config[s].f[k] =
                        IF IsSection(FileMap, s) /\ k \in DOMAIN FileMap[s].m
                        THEN FileMap[s].m[k] ELSE FieldDefaults(s)[k]
    /\ \A k \in TopFields :
          config[k] = IF k \in DOMAIN FileMap THEN FileMap[k] ELSE DefaultConfig[k]
    /\ FileMap = EmptyMap => config = DefaultConfig

\* a nested section of the file that its dataclass or the timeout check rejects
InvalidSection(s) ==
    IsSection(FileMap, s) /\ BuildSection(s, FileMap[s].m).raised # "none"

\* C26 (as claimed): the Config returned for an existing file has the file's
\* value in every field the file gives and the default in every other field,
\* with nested sections of the three classes; an empty file gives the defaults.
C26_FileValuesOverDefaults == LoadedFromFile => FileValuesOverDefaults

\* C26 (amended): the same, for a file none of whose nested sections is
\* invalid; an invalid section the user accepts to drop is returned with its
\* defaults, whatever the file gives for its fields.
C26_ValidFileValuesOverDefaults ==
    (LoadedFromFile /\ \A i \in 1..Len(SectionNames) : ~InvalidSection(SectionNames[i]))
        => FileValuesOverDefaults

\* a file with partial overrides in two sections and at the top level is loaded
C26_Witness ==
    /\ LoadedFromFile /\ ~cfg_interactive
    /\ IsSection(FileMap, "scraping") /\ IsSection(FileMap, "embedding")
    /\ "visualization" \notin DOMAIN FileMap
    /\ config.scraping.f.timeout = IntV(60)
    /\ config.scraping.f.retry_delay = FloatV(1)
    /\ config.embedding.f.model_name = StrV("custom-model")
    /\ config.embedding.f.batch_size = IntV(32)
    /\ config.log_level = StrV("DEBUG")
    /\ config.output_dir = StrV("outputs")

\* without prompts no invalid Config is returned and every failure is a
\* ValueError
NonInteractiveValid ==
    (op = "config" /\ ~cfg_interactive) =>
        /\ returned => Validate(config) = NoMessage
        /\ (pc = "done" /\ cfg_file # NoEntry) =>
              \A i \in 1..Len(SectionNames) : ~InvalidSection(SectionNames[i])
        /\ pc = "error" => error = "ValueError"

\* an invalid section the user accepted to drop is returned with its defaults
AcceptedSectionsDefault ==
    (LoadedFromFile /\ cfg_interactive) =>
        \A i \in 1..Len(SectionNames) :
            InvalidSection(SectionNames[i]) =>
                config[SectionNames[i]] = SectionDefaults(SectionNames[i])

Cancelled ==
    /\ pc = "error" /\ error = "ValueError" /\ ~returned
    /\ cfg_message # <<>> /\ cfg_message[1] = "Config loading cancelled"

\* C27 (as claimed): with interactive=False no Config failing validate() is
\* returned, an invalid section or a failed validation raising ValueError;
\* with interactive=True any answer other than 'y' raises ValueError
\* "Config loading cancelled" and 'y' to an invalid section replaces it by
\* its defaults.
C27_AnythingButYCancels ==
    /\ NonInteractiveValid
    /\ AcceptedSectionsDefault
    /\ (op = "config" /\ response \notin {NoResponse, "y"}) => Cancelled

\* C27 (amended): the same, the answer being compared without regard to
\* case: 'Y' is accepted like 'y', any other answer cancels.
C27_AnythingButYesCancels ==
    /\ NonInteractiveValid
    /\ AcceptedSectionsDefault
    /\ (op = "config" /\ response \notin {NoResponse, "y", "Y"}) => Cancelled
    /\ (op = "config" /\ response \in {"y", "Y"} /\ pc = "error") => ~Cancelled

\* a failed final validation has raised ValueError without a prompt
C27_Witness ==
    /\ op = "config" /\ pc = "error" /\ ~cfg_interactive
    /\ error = "ValueError" /\ ~returned
    /\ cfg_message[1] = "Configuration validation failed"
    /\ Validate(config) # NoMessage

====
